---- MODULE Spec2Model ----
(***************************************************************************)
(* A model of the RFP system's extraction engine (rfp/utils.py), of the    *)
(* email ingestion upsert (rfp/management/commands/fetch_emails.py) and of *)
(* the create-from-text endpoint (rfp/views.py).                           *)
(*                                                                         *)
(* Python values are tagged records of one shape, JV(t, n, s, l, o):       *)
(*   t  the Python type: "null" (None), "bool", "int", "hugeint" (an int   *)
(*      beyond the range of float), "float", "str", "cat" (a str built by  *)
(*      an f-string, its parts in l), "text" (a str kept as its            *)
(*      characters, in l), "list", "obj" (a dict), "doc" (see below);      *)
(*   n  the number: an int's value, a float's value in tenths, a bool's    *)
(*      0 or 1;                                                            *)
(*   s  the characters of a "str";                                         *)
(*   l  the elements of a "list", the parts of a "cat" or "text";          *)
(*   o  the entries of an "obj", a function from keys to values.           *)
(* A text the code scans character by character (the caller's input, the   *)
(* model's response) is a sequence of characters, each a one-character     *)
(* "str"; a whole JSON document inside such a text is one "doc" element    *)
(* holding the value json.loads gives for it.                              *)
(***************************************************************************)
EXTENDS Integers, Sequences, FiniteSets, TLC

VARIABLES
    call,        \* extraction: the call under way [fn, input, apiKey]
    upstream,    \* extraction: what the remote model did in this call
    outcome,     \* extraction: what the call gave back (raise or return)
    proposals,   \* the Proposal table: the committed rows
    nextId,      \* the next primary key of the Proposal table
    runs,        \* ingestion in sequence: the messages processed so far
    lastRun,     \* ingestion in sequence: what the last message's processing did
    workers,     \* concurrent ingestion: each worker's position and transaction
    script,      \* create_proposal_manual.py: its position and the row it holds
    requests,    \* create_rfp_from_text: each request's position and transaction
    rfpRows,     \* the RFP table: the committed rows the view created
    itemRows,    \* the RFPItem table: the committed rows
    nextPk,      \* the next primary key of the RFP table
    send,        \* send_rfp_emails: the request's position and its locals
    rfpStatus,   \* the status column of the seeded RFP rows
    outbox,      \* the invitations the mail backend accepted
    batch,       \* fetch_emails: the position of handle() and its locals
    mailbox,     \* the IMAP inbox: each message and its Seen flag
    resolve      \* _extract_rfp_id_from_subject: the subject and what it gave

exVars == <<call, upstream, outcome>>
dbVars == <<proposals, nextId>>
seqVars == <<runs, lastRun>>
concVars == <<workers, script>>
createVars == <<requests, rfpRows, itemRows, nextPk>>
sendVars == <<send, rfpStatus, outbox>>
batchVars == <<batch, mailbox, resolve>>
vars ==
    <<call, upstream, outcome, proposals, nextId, runs, lastRun, workers, script,
      requests, rfpRows, itemRows, nextPk, send, rfpStatus, outbox, batch, mailbox,
      resolve>>

---------------------------------------------------------------------------
(* Bounds of the model *)

MaxInputLen == 2
MaxItems == 2
MaxRuns == 3
NumWorkers == 2
NumRequests == 2
MaxVendorIds == 2
MaxSubjectLen == 3
MaxMailbox == 2

---------------------------------------------------------------------------
(* Python values *)

NoObj == [kk \in {} |-> 0]
JV(t, n, s, l, o) == [t |-> t, n |-> n, s |-> s, l |-> l, o |-> o]
None == JV("null", 0, "", <<>>, NoObj)
Absent == JV("absent", 0, "", <<>>, NoObj)
JBool(b) == JV("bool", IF b THEN 1 ELSE 0, "", <<>>, NoObj)
JInt(n) == JV("int", n, "", <<>>, NoObj)
HugeInt == JV("hugeint", 0, "", <<>>, NoObj)
JFloat(tenths) == JV("float", tenths, "", <<>>, NoObj)
JStr(s) == JV("str", 0, s, <<>>, NoObj)
JCat(parts) == JV("cat", 0, "", parts, NoObj)
JText(chars) == JV("text", 0, "", chars, NoObj)
JList(l) == JV("list", 0, "", l, NoObj)
JObj(o) == JV("obj", 0, "", <<>>, o)
Ch(c) == JStr(c)
Doc(d) == JV("doc", 0, "", <<d>>, NoObj)

IsStr(v) == v.t \in {"str", "cat", "text"}

\* bool(v), as 'if v:' and 'not v' take it
Truthy(v) ==
    CASE v.t = "null" -> FALSE
      [] v.t \in {"bool", "int", "float"} -> v.n # 0
      [] v.t = "hugeint" -> TRUE
      [] v.t = "str" -> v.s # ""
      [] v.t \in {"cat", "text", "list"} -> v.l # <<>>
      [] v.t = "obj" -> DOMAIN v.o # {}
      [] OTHER -> TRUE

\* type(v).__name__
TypeName(v) ==
    CASE v.t = "null" -> "NoneType"
      [] v.t = "bool" -> "bool"
      [] v.t \in {"int", "hugeint"} -> "int"
      [] v.t = "float" -> "float"
      [] v.t \in {"str", "cat", "text"} -> "str"
      [] v.t = "list" -> "list"
      [] OTHER -> "dict"

\* The result of an expression that may raise.
Ok(v) == [ok |-> TRUE, exc |-> "", msg |-> "", val |-> v]
Raised(exc, msg) == [ok |-> FALSE, exc |-> exc, msg |-> msg, val |-> None]

\* The literals float() and int() parse among the strings of the model.
FloatLiterals == [s \in {"12.5", "75000", "0"} |->
    CASE s = "12.5" -> 125 [] s = "75000" -> 750000 [] OTHER -> 0]
IntLiterals == [s \in {"75000", "0"} |-> IF s = "75000" THEN 75000 ELSE 0]
\* The strings datetime.fromisoformat accepts among the strings of the model.
IsoLiterals == {"2024-03-15", "2024-03-15T10:30:00"}

\* float(v)
PyFloat(v) ==
    CASE v.t = "int" -> Ok(JFloat(10 * v.n))
      [] v.t = "bool" -> Ok(JFloat(10 * v.n))
      [] v.t = "float" -> Ok(v)
      [] v.t = "hugeint" -> Raised("OverflowError", "int too large to convert to float")
      [] v.t = "str" -> IF v.s \in DOMAIN FloatLiterals
                         THEN Ok(JFloat(FloatLiterals[v.s]))
                         ELSE Raised("ValueError", "could not convert string to float")
      [] OTHER -> Raised("TypeError", "float() argument must be a string or a real number")

\* int(v): a float is truncated toward zero
PyInt(v) ==
    CASE v.t \in {"int", "hugeint"} -> Ok(v)
      [] v.t = "bool" -> Ok(JInt(v.n))
      [] v.t = "float" -> Ok(JInt(IF v.n >= 0 THEN v.n \div 10 ELSE -((-v.n) \div 10)))
      [] v.t = "str" -> IF v.s \in DOMAIN IntLiterals
                         THEN Ok(JInt(IntLiterals[v.s]))
                         ELSE Raised("ValueError", "invalid literal for int() with base 10")
      [] OTHER -> Raised("TypeError", "int() argument must be a string, a bytes-like object or a real number")

\* str(v): a str is kept, anything else is rendered
PyStr(v) ==
    CASE IsStr(v) -> v
      [] v.t = "null" -> JStr("None")
      [] v.t = "bool" -> JStr(IF v.n = 1 THEN "True" ELSE "False")
      [] v.t = "int" -> JStr(ToString(v.n))
      [] OTHER -> JCat(<<JStr("repr"), v>>)

\* datetime.fromisoformat(v): only its raising matters, the value is dropped
FromIsoFormat(v) ==
    IF v.t # "str" THEN Raised("TypeError", "fromisoformat: argument must be str")
    ELSE IF v.s \in IsoLiterals THEN Ok(v)
    ELSE Raised("ValueError", "Invalid isoformat string")

\* Mutant: get without its second argument, an absent key gives None.
DictGet_NoDefault(d, key, default) == IF key \in DOMAIN d.o THEN d.o[key] ELSE None

\* d.get(key, default) on a dict
DictGet(d, key, default) == IF key \in DOMAIN d.o THEN d.o[key] ELSE default

---------------------------------------------------------------------------
(* The record store: rfp/models.py *)

\* The seeded Vendor and RFP rows.
Vendors ==
    {[id |-> 1, name |-> "Acme", email |-> "sales@acme.com"],
     [id |-> 2, name |-> "Meghana", email |-> "meghana.nagaraj766@gmail.com"]}
RFPs ==
    {[id |-> 1, title |-> "Office Laptop Purchase"],
     [id |-> 2, title |-> "Laptop Procurement"]}

\* A Proposal row; NoRow is the None of .first().
NoRow ==
    [id |-> 0, rfp |-> 0, vendor |-> 0, price |-> None, payment_terms |-> None,
     warranty |-> None, raw_email_content |-> <<>>]

\* Proposal.Meta.unique_together = [rfp, vendor]: whether the store holds
\* the constraint.
UniqueTogether_Absent == FALSE
UniqueTogether == TRUE

\* What the processing of one message did: its result (True, False), the
\* branch of the upsert it took, the pair it resolved, the envelope of the
\* extraction and the body.
NoRun ==
    [result |-> "none", path |-> "", rfp |-> 0, vendor |-> 0, data |-> NoObj,
     body |-> <<>>]

\* A worker of the ingestion before it takes a message: its position, the
\* pair and the extraction of its message, the row .first() gave it, the
\* write its transaction holds, and what it returned.
IdleWorker ==
    [pc |-> "idle", rfp |-> 0, vendor |-> 0, data |-> NoObj, body |-> <<>>,
     existing |-> NoRow, pending |-> NoRow, result |-> "none", path |-> ""]
IdleScript == [pc |-> "idle", row |-> NoRow, created |-> FALSE]
ConcIdle == workers = [w \in 1..NumWorkers |-> IdleWorker] /\ script = IdleScript

\* An RFP row and an RFPItem row; NoRfp is no row.
NoRfp ==
    [id |-> 0, title |-> None, natural_language_input |-> <<>>, budget |-> None,
     status |-> ""]
\* A request of the view before it arrives: its position, the text of its
\* body, the text once validated, the extraction result, the rows its
\* transaction holds, the entries of items it has gone through, the status
\* and the details of its response, and the exception that ended it.
IdleRequest ==
    [pc |-> "idle", body |-> None, text |-> <<>>, got |-> NoObj, rfp |-> NoRfp,
     items |-> {}, k |-> 0, status |-> 0, details |-> None, raisedAt |-> "",
     exc |-> ""]
CreateIdle ==
    /\ requests = [r \in 1..NumRequests |-> IdleRequest]
    /\ rfpRows = {} /\ itemRows = {}
    /\ nextPk = 1

\* A send_rfp_emails request before it arrives: its position, the RFP and
\* the vendor_ids of the request, the matched vendors still to mail, the
\* outcome of each send so far, the locals sent_count and failed_vendors,
\* the status of the response and the status the RFP had when loaded.
IdleSend ==
    [pc |-> "idle", rfp |-> 0, vendor_ids |-> None, todo |-> <<>>, attempts |-> <<>>,
     sent_count |-> 0, failed_vendors |-> <<>>, status |-> 0, loaded |-> ""]
SendIdle ==
    /\ send = IdleSend
    /\ rfpStatus = [r \in {x.id : x \in RFPs} |-> "draft"]
    /\ outbox = {}

\* handle() before it starts: its position, the options, the ids of the
\* batch and those still to go through, the ids the loop reached, fetched
\* and handed to _create_proposal_from_email, the two counters, and the
\* error of the mail server that ended it.
IdleBatch ==
    [pc |-> "idle", mark_seen |-> FALSE, create_proposals |-> FALSE,
     email_ids |-> <<>>, ids |-> <<>>, fetched |-> {}, reached |-> {},
     processed |-> {}, proposals_created |-> 0, proposals_failed |-> 0,
     error |-> ""]
\* The resolution of a subject before it starts.
IdleResolve == [pc |-> "idle", subject |-> <<>>, rfp_id |-> None, skipped |-> FALSE]
BatchIdle == batch = IdleBatch /\ mailbox = <<>> /\ resolve = IdleResolve

---------------------------------------------------------------------------
(* Texts *)

IsWs(c) == c.t = "str" /\ c.s \in {" ", "\n"}
SetMin(S) == CHOOSE x \in S : \A y \in S : x <= y
SetMax(S) == CHOOSE x \in S : \A y \in S : x >= y

\* str.strip()
Strip(text) ==
    LET keep == {i \in 1..Len(text) : ~IsWs(text[i])}
    IN  IF keep = {} THEN <<>> ELSE SubSeq(text, SetMin(keep), SetMax(keep))

StartsWith(text, p) == Len(text) >= Len(p) /\ SubSeq(text, 1, Len(p)) = p
EndsWith(text, p) ==
    Len(text) >= Len(p) /\ SubSeq(text, Len(text) - Len(p) + 1, Len(text)) = p

\* A backtick is the character "bt".
Fence == <<Ch("bt"), Ch("bt"), Ch("bt")>>
FenceJson == Fence \o <<Ch("j"), Ch("s"), Ch("o"), Ch("n")>>

---------------------------------------------------------------------------
(* The extraction engine: rfp/utils.py *)

\* What a call gives back: an exception raised to the caller, or an envelope
\* (a dict, here a function from its keys to their values).
Raise(exc, msg) == [kind |-> "raise", exc |-> exc, msg |-> msg, env |-> NoObj]
Return(env) == [kind |-> "return", exc |-> "", msg |-> "", env |-> env]
Pending == [kind |-> "pending", exc |-> "", msg |-> "", env |-> NoObj]

\* What the remote model does in one call: genai raises, or the response is
\* falsy, or response.text is a text; "notcalled" when the call is not reached.
UpRaise(exc, msg) == [kind |-> "raise", exc |-> exc, msg |-> msg, text |-> <<>>]
UpNone == [kind |-> "none", exc |-> "", msg |-> "", text |-> <<>>]
UpText(text) == [kind |-> "text", exc |-> "", msg |-> "", text |-> text]
NotCalled == [kind |-> "notcalled", exc |-> "", msg |-> "", text |-> <<>>]

\* Mutant: the check without the strip.
InputIsEmpty_NoStrip(input) == input = <<>>

\* 'not natural_language_input or not natural_language_input.strip()'
InputIsEmpty(input) == input = <<>> \/ Strip(input) = <<>>

\* Mutant: the check as 'api_key is None'.
KeyMissing_OnlyNone(apiKey) == apiKey.t = "null"

\* 'not api_key', for os.getenv's None or str
KeyMissing(apiKey) == ~Truthy(apiKey)

MissingKeyError == JCat(<<JStr("GEMINI_API_KEY"), JStr(" environment variable not set")>>)
EmptyResponseError == JStr("Empty response from Gemini API")
\* f'{error_type}: {error_message}'
ExceptionError(exc, msg) == JCat(<<JStr(exc), JStr(": "), JStr(msg)>>)
\* f'Failed to parse JSON response: {str(e)}'
ParseError(msg) == JCat(<<JStr("Failed to parse JSON response: "), JStr(msg)>>)

\* Mutant: the cleanup without the tagged fence.
CleanResponse_NoTag(text) ==
    LET t0 == Strip(text)
        t2 == IF StartsWith(t0, Fence) THEN SubSeq(t0, 4, Len(t0)) ELSE t0
        t3 == IF EndsWith(t2, Fence) THEN SubSeq(t2, 1, Len(t2) - 3) ELSE t2
    IN  Strip(t3)

\* The cleanup of response.text: strip, drop a leading fence, drop a trailing
\* fence, strip.
CleanResponse(text) ==
    LET t0 == Strip(text)
        t1 == IF StartsWith(t0, FenceJson) THEN SubSeq(t0, 8, Len(t0)) ELSE t0
        t2 == IF StartsWith(t1, Fence) THEN SubSeq(t1, 4, Len(t1)) ELSE t1
        t3 == IF EndsWith(t2, Fence) THEN SubSeq(t2, 1, Len(t2) - 3) ELSE t2
    IN  Strip(t3)

\* json.loads: white space around one document is skipped; anything else is
\* a JSONDecodeError.
JsonLoads(text) ==
    LET core == Strip(text)
    IN  IF Len(core) = 1 /\ core[1].t = "doc" THEN Ok(core[1].l[1])
        ELSE IF Len(core) > 1 /\ core[1].t = "doc"
             THEN Raised("JSONDecodeError", "Extra data")
        ELSE Raised("JSONDecodeError", "Expecting value")

\* Mutant: the number is checked but not converted.
NormalizeNumber_NoConversion(v) ==
    IF v.t = "null" THEN Ok(v)
    ELSE LET r == PyFloat(v)
         IN  IF r.ok THEN Ok(v)
             ELSE IF r.exc \in {"ValueError", "TypeError"} THEN Ok(None)
             ELSE r

\* 'result[budget] = float(result[budget])' under 'except (ValueError, TypeError)'
NormalizeNumber(v) ==
    IF v.t = "null" THEN Ok(v)
    ELSE LET r == PyFloat(v)
         IN  IF r.ok THEN r
             ELSE IF r.exc \in {"ValueError", "TypeError"} THEN Ok(None)
             ELSE r

\* 'if result[deadline]: datetime.fromisoformat(...)' under
\* 'except (ValueError, TypeError)'
NormalizeDeadline(v) ==
    IF ~Truthy(v) THEN v
    ELSE IF FromIsoFormat(v).ok THEN v
    ELSE None

\* One entry of items that is a dict with a name.
ValidateItem(item) ==
    LET q == PyInt(DictGet(item, "quantity", JInt(1)))
    IN  IF ~q.ok THEN q
        ELSE Ok(JObj([name |-> PyStr(DictGet(item, "name", JStr(""))),
                      quantity |-> q.val,
                      specifications |-> PyStr(DictGet(item, "specifications", JStr("")))]))

\* Mutant: every dict is kept, named or not.
ItemIsKept_AnyObject(item) == item.t = "obj"

\* 'isinstance(item, dict) and name in item'
ItemIsKept(item) == item.t = "obj" /\ "name" \in DOMAIN item.o

\* The loop over result[items]: the entries kept, in order, or the first
\* exception an entry raises.
RECURSIVE ValidateEntries(_)
ValidateEntries(entries) ==
    IF entries = <<>> THEN Ok(JList(<<>>))
    ELSE LET rest == ValidateEntries(Tail(entries))
             item == Head(entries)
         IN  IF ~ItemIsKept(item) THEN rest
             ELSE LET r == ValidateItem(item)
                  IN  IF ~r.ok THEN r
                      ELSE IF ~rest.ok THEN rest
                      ELSE Ok(JList(<<r.val>> \o rest.val.l))

\* 'for item in result[items]': a list gives its entries, a str its
\* characters and a dict its keys (none of them a dict); anything else is
\* not iterable.
ValidateItems(items) ==
    CASE items.t = "list" -> ValidateEntries(items.l)
      [] IsStr(items) \/ items.t = "obj" -> Ok(JList(<<>>))
      [] OTHER -> Raised("TypeError", "'" \o TypeName(items) \o "' object is not iterable")

\* Mutant: the failure envelope without its error.
RfpFailure_NullError(error) ==
    [success |-> JBool(FALSE), error |-> None, title |-> None, budget |-> None,
     deadline |-> None, items |-> JList(<<>>)]

RfpFailure(error) ==
    [success |-> JBool(FALSE), error |-> error, title |-> None, budget |-> None,
     deadline |-> None, items |-> JList(<<>>)]

\* Mutant: the parse-failure envelope without its items.
RfpParseFailure_NoItems(error, cleaned) ==
    [success |-> JBool(FALSE), error |-> error, title |-> None, budget |-> None,
     deadline |-> None, raw_response |-> JText(cleaned)]

RfpParseFailure(error, cleaned) ==
    [success |-> JBool(FALSE), error |-> error, title |-> None, budget |-> None,
     deadline |-> None, items |-> JList(<<>>), raw_response |-> JText(cleaned)]

\* The normalisation of the parsed value, with what it raises.
NormalizeRfp(data) ==
    IF data.t # "obj"
    THEN Raised("AttributeError", "'" \o TypeName(data) \o "' object has no attribute 'get'")
    ELSE LET budget == NormalizeNumber(DictGet(data, "budget", None))
             items == ValidateItems(DictGet(data, "items", JList(<<>>)))
         IN  IF ~budget.ok THEN budget
             ELSE IF ~items.ok THEN items
             ELSE [ok |-> TRUE, exc |-> "", msg |-> "", val |->
                   [success |-> JBool(TRUE), error |-> None,
                    title |-> DictGet(data, "title", JStr("Untitled RFP")),
                    budget |-> budget.val,
                    deadline |-> NormalizeDeadline(DictGet(data, "deadline", None)),
                    items |-> items.val]]

\* Mutant: no handler of JSONDecodeError, which then reaches the outer handler.
RfpFromResponse_NoParseHandler(text) ==
    LET parsed == JsonLoads(CleanResponse(text))
        r == IF parsed.ok THEN NormalizeRfp(parsed.val) ELSE parsed
    IN  IF r.ok THEN r.val ELSE RfpFailure(ExceptionError(r.exc, r.msg))

\* The body of the try block once the response is there.
RfpFromResponse(text) ==
    LET cleaned == CleanResponse(text)
        parsed == JsonLoads(cleaned)
    IN  IF ~parsed.ok THEN RfpParseFailure(ParseError(parsed.msg), cleaned)
        ELSE LET r == NormalizeRfp(parsed.val)
             IN  IF r.ok THEN r.val ELSE RfpFailure(ExceptionError(r.exc, r.msg))

\* Mutant: the remote call outside the try block.
extract_rfp_from_text_Propagates(input, apiKey, up) ==
    IF InputIsEmpty(input)
    THEN Raise("ValueError", "Natural language input cannot be empty")
    ELSE IF KeyMissing(apiKey) THEN Return(RfpFailure(MissingKeyError))
    ELSE IF up.kind = "raise" THEN Raise(up.exc, up.msg)
    ELSE IF up.kind # "text" \/ up.text = <<>> THEN Return(RfpFailure(EmptyResponseError))
    ELSE Return(RfpFromResponse(up.text))

extract_rfp_from_text(input, apiKey, up) ==
    IF InputIsEmpty(input)
    THEN Raise("ValueError", "Natural language input cannot be empty")
    ELSE IF KeyMissing(apiKey) THEN Return(RfpFailure(MissingKeyError))
    ELSE IF up.kind = "raise" THEN Return(RfpFailure(ExceptionError(up.exc, up.msg)))
    ELSE IF up.kind # "text" \/ up.text = <<>> THEN Return(RfpFailure(EmptyResponseError))
    ELSE Return(RfpFromResponse(up.text))

ProposalFailure(error) ==
    [success |-> JBool(FALSE), error |-> error, price |-> None,
     payment_terms |-> None, warranty |-> None]

ProposalParseFailure(error, cleaned) ==
    [success |-> JBool(FALSE), error |-> error, price |-> None,
     payment_terms |-> None, warranty |-> None, raw_response |-> JText(cleaned)]

NormalizeProposal(data) ==
    IF data.t # "obj"
    THEN Raised("AttributeError", "'" \o TypeName(data) \o "' object has no attribute 'get'")
    ELSE LET price == NormalizeNumber(DictGet(data, "price", None))
         IN  IF ~price.ok THEN price
             ELSE [ok |-> TRUE, exc |-> "", msg |-> "", val |->
                   [success |-> JBool(TRUE), error |-> None,
                    price |-> price.val,
                    payment_terms |-> DictGet(data, "payment_terms", None),
                    warranty |-> DictGet(data, "warranty", None)]]

ProposalFromResponse(text) ==
    LET cleaned == CleanResponse(text)
        parsed == JsonLoads(cleaned)
    IN  IF ~parsed.ok THEN ProposalParseFailure(ParseError(parsed.msg), cleaned)
        ELSE LET r == NormalizeProposal(parsed.val)
             IN  IF r.ok THEN r.val ELSE ProposalFailure(ExceptionError(r.exc, r.msg))

extract_proposal_from_email(input, apiKey, up) ==
    IF InputIsEmpty(input)
    THEN Raise("ValueError", "Email body cannot be empty")
    ELSE IF KeyMissing(apiKey) THEN Return(ProposalFailure(MissingKeyError))
    ELSE IF up.kind = "raise" THEN Return(ProposalFailure(ExceptionError(up.exc, up.msg)))
    ELSE IF up.kind # "text" \/ up.text = <<>> THEN Return(ProposalFailure(EmptyResponseError))
    ELSE Return(ProposalFromResponse(up.text))

---------------------------------------------------------------------------
(* The inputs of the extraction engine *)

SeqsUpTo(S, n) == UNION {[1..k -> S] : k \in 0..n}

InputTexts == SeqsUpTo({Ch(" "), Ch("x")}, MaxInputLen)
ApiKeys == {None, JStr(""), JStr("test_key")}

\* A dict of the fields that are not Absent.
MkObj(fields) ==
    JObj([k \in {f \in DOMAIN fields : fields[f].t # "absent"} |-> fields[k]])

Item(name, quantity, specifications) ==
    MkObj([name |-> name, quantity |-> quantity, specifications |-> specifications])

Laptops == Item(JStr("Laptops"), JInt(50), JStr("16GB RAM"))
Monitors == Item(JStr("External Monitors"), JInt(10), JStr("27 inch, 4K resolution"))
EntryOpts ==
    {Laptops, Monitors,
     Item(Absent, JInt(1), JStr("no name")),
     JStr("Laptops"),
     Item(JStr("Desk"), JStr("abc"), Absent),
     Item(JStr("Chair"), Absent, Absent),
     Item(JStr("Lamp"), JFloat(25), JStr("")),
     Item(JStr("Cable"), JInt(0), None)}

TitleOpts == {Absent, None, JStr("Office Laptop Purchase")}
BudgetOpts ==
    {Absent, None, JInt(75000), JFloat(125), JStr("12.5"), JStr("abc"), HugeInt}
DeadlineOpts == {Absent, JStr("2024-03-15"), JStr("March 15"), JStr(""), JInt(5)}
ItemsCore == {Absent, None, JList(<<Laptops, Monitors>>)}
ItemsOpts ==
    {JList(l) : l \in SeqsUpTo(EntryOpts, MaxItems)}
        \cup {JStr("Laptops"), JInt(3), Laptops}

MkRfp(title, budget, deadline, items) ==
    MkObj([title |-> title, budget |-> budget, deadline |-> deadline, items |-> items])

NonObjects == {None, JBool(TRUE), JInt(3), JStr("x"), JList(<<>>), JList(<<Laptops>>)}

\* The values json.loads gives for the documents of the model: every
\* combination of title, budget and deadline, and every items value.
RfpDocs ==
    {MkRfp(t, b, d, i) : t \in TitleOpts, b \in BudgetOpts, d \in DeadlineOpts,
                         i \in ItemsCore}
        \cup {MkRfp(JStr("Office Laptop Purchase"), b, JStr("2024-03-15"), i) :
                b \in {JInt(75000), HugeInt}, i \in ItemsOpts}
        \cup NonObjects

PriceOpts ==
    {Absent, None, JInt(0), JInt(68500), JFloat(125), JStr("12.5"), JStr("abc"),
     JBool(TRUE), HugeInt, JList(<<>>)}
TermsOpts == {Absent, None, JStr("Net 30"), JStr(""), JInt(30)}
WarrantyOpts == {Absent, None, JStr("2 years")}

ProposalDocs ==
    {MkObj([price |-> p, payment_terms |-> t, warranty |-> w]) :
        p \in PriceOpts, t \in TermsOpts, w \in WarrantyOpts}
        \cup NonObjects

\* A response that wraps the JSON text j in a Markdown code fence.
FenceForms == {"json", "bare", "tight", "padded"}
WrapHead(form) ==
    CASE form = "json" -> FenceJson \o <<Ch("\n")>>
      [] form = "bare" -> Fence \o <<Ch("\n")>>
      [] form = "tight" -> FenceJson
      [] OTHER -> <<Ch(" ")>> \o FenceJson \o <<Ch("\n")>>
WrapTail(form) ==
    CASE form \in {"json", "bare"} -> <<Ch("\n")>> \o Fence
      [] form = "tight" -> Fence
      [] OTHER -> <<Ch("\n")>> \o Fence \o <<Ch("\n")>>
Wrap(form, j) == WrapHead(form) \o j \o WrapTail(form)

\* The JSON texts of a document: the document, with or without white space.
JsonTexts(docs) ==
    {<<Doc(d)>> : d \in docs} \cup {<<Ch(" "), Doc(d), Ch("\n")>> : d \in NonObjects}

\* Response texts that are no JSON text, fenced or not.
OddTexts(docs) ==
    LET d == Doc(CHOOSE x \in docs : x.t = "obj" /\ DOMAIN x.o # {})
        x == Ch("x")
    IN  {<<x>>, <<Ch(" ")>>, <<Ch("\n"), Ch(" ")>>, <<d, x>>, <<x, d>>, <<d, d>>,
         Fence, FenceJson, FenceJson \o Fence, Fence \o Fence,
         FenceJson \o <<x>> \o Fence,
         Fence \o <<Ch(" "), Ch("j"), Ch("s"), Ch("o"), Ch("n"), Ch("\n"), d>> \o Fence,
         Fence \o <<Ch("J"), Ch("S"), Ch("O"), Ch("N"), Ch("\n"), d>> \o Fence,
         FenceJson \o <<Ch("\n"), d>>,
         <<d, Ch("\n")>> \o Fence,
         FenceJson \o <<d>> \o Fence \o <<x>>}

ResponseTexts(docs) ==
    JsonTexts(docs)
        \cup {Wrap(f, j) : f \in FenceForms, j \in JsonTexts(docs)}
        \cup OddTexts(docs)

UpstreamFailures ==
    {UpRaise("Exception", "API Error"), UpRaise("TimeoutError", ""),
     UpRaise("ValueError", "response.text: no valid Part"), UpNone, UpText(<<>>)}

RfpUpstreams == UpstreamFailures \cup {UpText(t) : t \in ResponseTexts(RfpDocs)}
ProposalUpstreams == UpstreamFailures \cup {UpText(t) : t \in ResponseTexts(ProposalDocs)}

\* Whether the call gets as far as the remote model.
ReachesModel(c) == ~InputIsEmpty(c.input) /\ ~KeyMissing(c.apiKey)

---------------------------------------------------------------------------
(* The calls of the extraction engine *)

ExtractIdle == call = [fn |-> "none", input |-> <<>>, apiKey |-> None]
                  /\ upstream = NotCalled /\ outcome = Pending

InitExtract ==
    /\ call \in [fn : {"rfp", "proposal"}, input : InputTexts, apiKey : ApiKeys]
    /\ upstream = NotCalled
    /\ outcome = Pending
    /\ proposals = {} /\ nextId = 1
    /\ runs = 0 /\ lastRun = NoRun
    /\ ConcIdle /\ CreateIdle /\ SendIdle /\ BatchIdle

CallExtractRfp ==
    /\ call.fn = "rfp"
    /\ outcome = Pending
    /\ \E up \in (IF ReachesModel(call) THEN RfpUpstreams ELSE {NotCalled}) :
          /\ upstream' = up
          /\ outcome' = extract_rfp_from_text(call.input, call.apiKey, up)
    /\ UNCHANGED <<call, sendVars, batchVars, dbVars, seqVars, concVars, createVars>>

CallExtractProposal ==
    /\ call.fn = "proposal"
    /\ outcome = Pending
    /\ \E up \in (IF ReachesModel(call) THEN ProposalUpstreams ELSE {NotCalled}) :
          /\ upstream' = up
          /\ outcome' = extract_proposal_from_email(call.input, call.apiKey, up)
    /\ UNCHANGED <<call, sendVars, batchVars, dbVars, seqVars, concVars, createVars>>

NextExtract == CallExtractRfp \/ CallExtractProposal

SpecExtract == InitExtract /\ [][NextExtract]_vars

---------------------------------------------------------------------------
(* Claims about the extraction engine, checked under SpecExtract *)

Called == outcome.kind # "pending"
Returned == outcome.kind = "return"
AllWhite(text) == \A i \in 1..Len(text) : IsWs(text[i])
\* The error is a str that holds the words w.
Mentions(error, w) ==
    \/ error.t = "str" /\ error.s = w
    \/ error.t = "cat" /\ \E i \in 1..Len(error.l) : error.l[i] = JStr(w)
\* Every data field of the envelope is null, or the empty list for items.
DataIsNull(fn, env) ==
    IF fn = "rfp"
    THEN /\ env.title = None /\ env.budget = None /\ env.deadline = None
         /\ env.items = JList(<<>>)
    ELSE env.price = None /\ env.payment_terms = None /\ env.warranty = None
DataKeys(fn) ==
    IF fn = "rfp" THEN {"title", "budget", "deadline", "items"}
    ELSE {"price", "payment_terms", "warranty"}
\* The text is one JSON document and white space.
IsJsonText(text) ==
    \E i \in 1..Len(text) :
        text[i].t = "doc" /\ \A j \in (1..Len(text)) \ {i} : IsWs(text[j])
DocOf(text) == (CHOOSE c \in {text[i] : i \in 1..Len(text)} : c.t = "doc").l[1]

\* C1: an empty or whitespace-only input makes either function raise
\* ValueError; no envelope is returned.
C1_EmptyInputRaises ==
    (Called /\ AllWhite(call.input))
        => outcome.kind = "raise" /\ outcome.exc = "ValueError"

C1_Witness ==
    /\ call.fn = "proposal" /\ call.input = <<Ch(" "), Ch(" ")>>
    /\ call.apiKey = JStr("test_key") /\ outcome.kind = "raise"

\* C2: with the credential absent (unset or empty) and any non-empty input,
\* the envelope has success false, an error that names GEMINI_API_KEY, and
\* every data field null or empty.
C2_MissingKeyEnvelope ==
    (Called /\ ~AllWhite(call.input) /\ call.apiKey \in {None, JStr("")})
        => /\ Returned
           /\ outcome.env.success = JBool(FALSE)
           /\ Mentions(outcome.env.error, "GEMINI_API_KEY")
           /\ DataIsNull(call.fn, outcome.env)

C2_Witness ==
    /\ call.fn = "rfp" /\ call.apiKey = None /\ call.input = <<Ch("x"), Ch(" ")>>
    /\ Returned /\ Mentions(outcome.env.error, "GEMINI_API_KEY")

\* The response is a JSON object with a string title, a numeric budget among
\* the types given, an ISO calendar date as deadline and items that are
\* objects with a string name, an integer quantity and string specifications.
WellFormedItem(e) ==
    /\ e.t = "obj" /\ DOMAIN e.o = {"name", "quantity", "specifications"}
    /\ e.o["name"].t = "str" /\ e.o["quantity"].t = "int"
    /\ e.o["specifications"].t = "str"
WellFormedRfp(d, numbers) ==
    /\ d.t = "obj" /\ DOMAIN d.o = {"title", "budget", "deadline", "items"}
    /\ d.o["title"].t = "str"
    /\ d.o["budget"].t \in numbers
    /\ d.o["deadline"] = JStr("2024-03-15")
    /\ d.o["items"].t = "list"
    /\ \A i \in 1..Len(d.o["items"].l) : WellFormedItem(d.o["items"].l[i])
\* The envelope the claim describes for the document d.
IsRfpOf(env, d) ==
    /\ env.success = JBool(TRUE) /\ env.error = None
    /\ env.title = d.o["title"] /\ env.deadline = d.o["deadline"]
    /\ env.budget.t = "float"
    /\ env.budget.n = (IF d.o["budget"].t = "float" THEN d.o["budget"].n
                       ELSE 10 * d.o["budget"].n)
    /\ env.items.t = "list" /\ Len(env.items.l) = Len(d.o["items"].l)
    /\ \A i \in 1..Len(env.items.l) :
          /\ env.items.l[i].o["name"] = d.o["items"].l[i].o["name"]
          /\ env.items.l[i].o["quantity"] = JInt(d.o["items"].l[i].o["quantity"].n)
RfpResponseIs(numbers) ==
    /\ call.fn = "rfp" /\ Called /\ upstream.kind = "text"
    /\ IsJsonText(upstream.text)
    /\ WellFormedRfp(DocOf(upstream.text), numbers)

C4_FenceIsTransparent ==
    (Called /\ upstream.kind = "text")
        => \A f \in FenceForms :
             LET j == SubSeq(upstream.text, Len(WrapHead(f)) + 1,
                             Len(upstream.text) - Len(WrapTail(f)))
             IN  (IsJsonText(j) /\ upstream.text = Wrap(f, j))
                    => outcome = (IF call.fn = "rfp"
                                  THEN extract_rfp_from_text(call.input, call.apiKey, UpText(j))
                                  ELSE extract_proposal_from_email(call.input, call.apiKey, UpText(j)))

C4_Witness ==
    /\ call.fn = "rfp" /\ Returned
    /\ \E d \in RfpDocs : upstream = UpText(Wrap("json", <<Doc(d)>>))
    /\ outcome.env.success = JBool(TRUE)
    /\ outcome.env.title = JStr("Office Laptop Purchase")

\* C5: a non-empty response that is no JSON text after the cleanup gives an
\* envelope with success false, an error that says the JSON failed to parse,
\* every data field null or empty and the cleaned text under raw_response.
C5_ParseFailureEnvelope ==
    (Called /\ upstream.kind = "text" /\ upstream.text # <<>>
        /\ ~IsJsonText(CleanResponse(upstream.text)))
        => /\ Returned
           /\ outcome.env.success = JBool(FALSE)
           /\ Mentions(outcome.env.error, "Failed to parse JSON response: ")
           /\ DataIsNull(call.fn, outcome.env)
           /\ "raw_response" \in DOMAIN outcome.env
           /\ outcome.env.raw_response = JText(CleanResponse(upstream.text))

C5_Witness ==
    /\ call.fn = "rfp" /\ Returned
    /\ upstream.kind = "text" /\ \E i \in 1..Len(upstream.text) : upstream.text[i].t = "doc"
    /\ "raw_response" \in DOMAIN outcome.env
    /\ Len(outcome.env.raw_response.l) = 2

\* C6: when the remote call raises, the envelope has success false, the
\* error "<kind>: <message>" and every data field null or empty; nothing is
\* raised to the caller.
C6_UpstreamExceptionEnvelope ==
    (Called /\ upstream.kind = "raise")
        => /\ Returned
           /\ outcome.env.success = JBool(FALSE)
           /\ outcome.env.error = JCat(<<JStr(upstream.exc), JStr(": "), JStr(upstream.msg)>>)
           /\ DataIsNull(call.fn, outcome.env)

C6_Witness ==
    /\ upstream = UpRaise("ValueError", "response.text: no valid Part")
    /\ Returned /\ call.fn = "rfp"
    /\ Mentions(outcome.env.error, "ValueError")

\* C10: a call raises exactly when its input is empty or white space; every
\* other call returns an envelope that has success, error and every data
\* field.
C10_UniformEnvelope ==
    Called =>
        /\ (outcome.kind = "raise") <=> AllWhite(call.input)
        /\ Returned => ({"success", "error"} \cup DataKeys(call.fn)) \subseteq DOMAIN outcome.env

C10_Witness ==
    /\ Returned /\ call.fn = "rfp" /\ upstream.kind = "text"
    /\ outcome.env.error = ExceptionError("TypeError", "'NoneType' object is not iterable")

\* The value the claims give a numeric field: the float of a convertible
\* value, null for any other.
FloatOrNull(v) == IF PyFloat(v).ok THEN PyFloat(v).val ELSE None
\* The response is a JSON object whose fields other than budget are well
\* formed, and the envelope keeps them.
RfpWellFormedButBudget(d) ==
    /\ d.t = "obj" /\ DOMAIN d.o = {"title", "budget", "deadline", "items"}
    /\ d.o["title"].t = "str"
    /\ d.o["deadline"] = JStr("2024-03-15")
    /\ d.o["items"].t = "list"
    /\ \A i \in 1..Len(d.o["items"].l) : WellFormedItem(d.o["items"].l[i])
RfpOthersKept(env, d) ==
    /\ env.title = d.o["title"] /\ env.deadline = d.o["deadline"]
    /\ env.items = d.o["items"]
ProposalWellFormedButPrice(d) ==
    /\ d.t = "obj" /\ DOMAIN d.o = {"price", "payment_terms", "warranty"}
    /\ d.o["payment_terms"].t \in {"str", "null"}
    /\ d.o["warranty"].t \in {"str", "null"}
JsonResponse(fn) ==
    /\ call.fn = fn /\ Called /\ upstream.kind = "text"
    /\ IsJsonText(upstream.text)

\* C13: when the parsed object is otherwise well formed, the extraction
\* returns success=true whatever the budget (or price): a value float()
\* converts is returned as that float, any other value as null, and every
\* other field is as parsed.
C13_BadNumberBecomesNull ==
    /\ (JsonResponse("rfp") /\ RfpWellFormedButBudget(DocOf(upstream.text)))
          => /\ Returned
             /\ outcome.env.success = JBool(TRUE) /\ outcome.env.error = None
             /\ outcome.env.budget = FloatOrNull(DocOf(upstream.text).o["budget"])
             /\ RfpOthersKept(outcome.env, DocOf(upstream.text))
    /\ (JsonResponse("proposal") /\ ProposalWellFormedButPrice(DocOf(upstream.text)))
          => /\ Returned
             /\ outcome.env.success = JBool(TRUE) /\ outcome.env.error = None
             /\ outcome.env.price = FloatOrNull(DocOf(upstream.text).o["price"])
             /\ outcome.env.payment_terms = DocOf(upstream.text).o["payment_terms"]
             /\ outcome.env.warranty = DocOf(upstream.text).o["warranty"]

\* The value is a string that is an ISO-8601 calendar date.
IsIsoDate(v) == v.t = "str" /\ v.s = "2024-03-15"
RfpSucceeded == call.fn = "rfp" /\ Returned /\ outcome.env.success = JBool(TRUE)

\* C14: in every successful result of extract_rfp_from_text the deadline is
\* null or an ISO-8601 calendar date, and a parsed deadline that is not such
\* a date (a non-ISO string, an empty string, a number, ...) comes back null.
C14_DeadlineIsoOrNull ==
    RfpSucceeded
        => /\ outcome.env.deadline = None \/ IsIsoDate(outcome.env.deadline)
           /\ (/\ IsJsonText(upstream.text)
               /\ "deadline" \in DOMAIN DocOf(upstream.text).o
               /\ ~IsIsoDate(DocOf(upstream.text).o["deadline"]))
                 => outcome.env.deadline = None

\* The places of a parsed list whose entry is an object with a name, and the
\* place such an entry takes among them.
NamedPlaces(l) == {i \in 1..Len(l) : l[i].t = "obj" /\ "name" \in DOMAIN l[i].o}
PlaceAmongNamed(l, i) == Cardinality({j \in NamedPlaces(l) : j <= i})
RfpSucceededOnList ==
    /\ RfpSucceeded /\ IsJsonText(upstream.text)
    /\ "items" \in DOMAIN DocOf(upstream.text).o
    /\ DocOf(upstream.text).o["items"].t = "list"

\* C15: in a successful result of extract_rfp_from_text, items holds one
\* entry for each parsed entry that is an object with a name, in the parsed
\* order, and nothing else; each has a text name, an integer quantity and a
\* text specifications, the empty string when the entry has none.
C15_ItemsAreNamedEntries ==
    RfpSucceededOnList
        => LET parsed == DocOf(upstream.text).o["items"].l
               items == outcome.env.items.l
           IN  /\ Len(items) = Cardinality(NamedPlaces(parsed))
               /\ \A i \in NamedPlaces(parsed) :
                    LET kept == items[PlaceAmongNamed(parsed, i)].o
                    IN  /\ DOMAIN kept = {"name", "quantity", "specifications"}
                        /\ kept["name"] = PyStr(parsed[i].o["name"])
                        /\ kept["quantity"].t \in {"int", "hugeint"}
                        /\ ("quantity" \in DOMAIN parsed[i].o
                               /\ parsed[i].o["quantity"].t = "int")
                             => kept["quantity"] = parsed[i].o["quantity"]
                        /\ IsStr(kept["specifications"])
                        /\ "specifications" \notin DOMAIN parsed[i].o
                             => kept["specifications"] = JStr("")

\* Of two parsed entries the first has no name: the result holds the second
\* alone.
C15_Witness ==
    /\ RfpSucceededOnList
    /\ DocOf(upstream.text).o["items"].l
          = <<Item(Absent, JInt(1), JStr("no name")), Monitors>>
    /\ Len(outcome.env.items.l) = 1
    /\ outcome.env.items.l[1].o["name"] = JStr("External Monitors")

\* The parsed entry is a named object whose quantity is absent or is a value
\* int() does not convert.
QuantityUnusable(e) ==
    "quantity" \notin DOMAIN e.o \/ ~PyInt(e.o["quantity"]).ok
\* The response is a JSON object with a budget float() converts and a list of
\* named objects as items.
RfpWithNamedItems(d) ==
    /\ d.t = "obj" /\ DOMAIN d.o = {"title", "budget", "deadline", "items"}
    /\ PyFloat(d.o["budget"]).ok
    /\ d.o["items"].t = "list"
    /\ \A i \in 1..Len(d.o["items"].l) :
          d.o["items"].l[i].t = "obj" /\ "name" \in DOMAIN d.o["items"].l[i].o

\* C16: when the quantity of a named item is absent or cannot be coerced to
\* an integer, extract_rfp_from_text still returns success=true, and that
\* item is kept with quantity 1.
C16_BadQuantityBecomesOne ==
    (JsonResponse("rfp") /\ RfpWithNamedItems(DocOf(upstream.text)))
        => /\ Returned /\ outcome.env.success = JBool(TRUE)
           /\ Len(outcome.env.items.l) = Len(DocOf(upstream.text).o["items"].l)
           /\ \A i \in 1..Len(outcome.env.items.l) :
                QuantityUnusable(DocOf(upstream.text).o["items"].l[i])
                    => outcome.env.items.l[i].o["quantity"] = JInt(1)

\* The call of fn returned success=true on a response that is the JSON text
\* of an object.
SucceededOnObject(fn) ==
    /\ JsonResponse(fn) /\ Returned /\ outcome.env.success = JBool(TRUE)
    /\ DocOf(upstream.text).t = "obj"

\* C17: in a successful result, a field absent from the parsed object has its
\* fallback: title "Untitled RFP", budget null, deadline null, items the
\* empty list; price, payment_terms and warranty null.
C17_AbsentFieldsDefault ==
    /\ SucceededOnObject("rfp") =>
         LET d == DocOf(upstream.text).o
         IN  /\ "title" \notin DOMAIN d => outcome.env.title = JStr("Untitled RFP")
             /\ "budget" \notin DOMAIN d => outcome.env.budget = None
             /\ "deadline" \notin DOMAIN d => outcome.env.deadline = None
             /\ "items" \notin DOMAIN d => outcome.env.items = JList(<<>>)
    /\ SucceededOnObject("proposal") =>
         LET d == DocOf(upstream.text).o
         IN  /\ "price" \notin DOMAIN d => outcome.env.price = None
             /\ "payment_terms" \notin DOMAIN d => outcome.env.payment_terms = None
             /\ "warranty" \notin DOMAIN d => outcome.env.warranty = None

\* A successful result for an object that has none of the four fields.
C17_Witness ==
    /\ SucceededOnObject("rfp") /\ DOMAIN DocOf(upstream.text).o = {}
    /\ outcome.env.title = JStr("Untitled RFP") /\ outcome.env.items = JList(<<>>)

\* The error is a str that is not empty.
NonEmptyError(error) ==
    \/ error.t = "str" /\ error.s # ""
    \/ error.t = "cat" /\ \E i \in 1..Len(error.l) : error.l[i].s # ""

\* C26: every envelope either function returns has success true or false;
\* success is true exactly when error is null; and an envelope with
\* success=false has a non-empty error string and every data field null
\* (items the empty list).
C26_SuccessExcludesError ==
    Returned
        => /\ outcome.env.success \in {JBool(TRUE), JBool(FALSE)}
           /\ (outcome.env.success = JBool(TRUE)) <=> (outcome.env.error = None)
           /\ outcome.env.success = JBool(FALSE)
                => /\ NonEmptyError(outcome.env.error)
                   /\ DataIsNull(call.fn, outcome.env)

\* An exception of the normalisation (a budget beyond the range of float),
\* raised after title and items were read, gave an envelope without data.
C26_Witness ==
    /\ Returned /\ call.fn = "rfp" /\ JsonResponse("rfp")
    /\ DocOf(upstream.text).t = "obj"
    /\ "title" \in DOMAIN DocOf(upstream.text).o
    /\ DocOf(upstream.text).o["title"] = JStr("Office Laptop Purchase")
    /\ outcome.env.success = JBool(FALSE)
    /\ Mentions(outcome.env.error, "OverflowError")
    /\ DataIsNull("rfp", outcome.env)

\* The response is valid JSON whose value is not an object, or, for an RFP,
\* an object whose items is not a list.
NotTheShape(fn) ==
    /\ JsonResponse(fn)
    /\ \/ DocOf(upstream.text).t # "obj"
       \/ /\ fn = "rfp"
          /\ "items" \in DOMAIN DocOf(upstream.text).o
          /\ DocOf(upstream.text).o["items"].t # "list"

\* C27: when the response is valid JSON but not an object, or its items is
\* not a list, the call does not raise and does not return success=true: it
\* returns success=false, an error of the form "<exception kind>: <message>"
\* and every data field null or empty.
C27_WrongShapeFails ==
    \A fn \in {"rfp", "proposal"} :
        NotTheShape(fn)
            => /\ Returned
               /\ outcome.env.success = JBool(FALSE)
               /\ Mentions(outcome.env.error, ": ")
               /\ DataIsNull(fn, outcome.env)

---------------------------------------------------------------------------
(* The ingestion of one message: Command._create_proposal_from_email *)

\* str.lower() on the strings of the model, as __iexact compares.
Lower(s) ==
    CASE s = "SALES@ACME.COM" -> "sales@acme.com"
      [] s = "laptop procurement" -> "laptop procurement"
      [] s = "Laptop Procurement" -> "laptop procurement"
      [] s = "Office Laptop Purchase" -> "office laptop purchase"
      [] OTHER -> s

\* Vendor.objects.filter(email__iexact=sender_email).first(): a vendor id, 0
\* for None.
FindVendor(sender) ==
    LET found == {v \in Vendors : Lower(v.email) = Lower(sender)}
    IN  IF found = {} THEN 0 ELSE (CHOOSE v \in found : TRUE).id

\* A subject line is a sequence of tokens: a reply prefix (Re:, Fwd:, Fw:),
\* "RFP #<n>", "RFP ID: <n>", "RFP Invitation:" or other words.
Tok(k, n, s) == [k |-> k, n |-> n, s |-> s]
TokText(tok) ==
    CASE tok.k = "prefix" -> "Re: "
      [] tok.k = "hash" -> "RFP #" \o ToString(tok.n)
      [] tok.k = "id" -> "RFP ID: " \o ToString(tok.n)
      [] tok.k = "inv" -> "RFP Invitation: "
      [] OTHER -> tok.s
RECURSIVE JoinToks(_)
JoinToks(toks) == IF toks = <<>> THEN "" ELSE TokText(Head(toks)) \o JoinToks(Tail(toks))
FirstOf(subject, k) ==
    LET at == {i \in 1..Len(subject) : subject[i].k = k}
    IN  IF at = {} THEN 0 ELSE SetMin(at)

\* RFP.objects.filter(title__iexact=title).first(), newest first: an id or None
FindRfpByTitle(title) ==
    LET found == {r \in RFPs : Lower(r.title) = Lower(title)}
    IN  IF found = {} THEN None ELSE JInt(SetMax({r.id : r \in found}))

\* Mutant: the RFP ID: pattern tried before the RFP # pattern.
_extract_rfp_id_from_subject_IdFirst(subject) ==
    LET hash == FirstOf(subject, "hash")
        id == FirstOf(subject, "id")
        inv == FirstOf(subject, "inv")
    IN  IF id # 0 THEN JInt(subject[id].n)
        ELSE IF hash # 0 THEN JInt(subject[hash].n)
        ELSE IF inv # 0 /\ inv < Len(subject)
             THEN FindRfpByTitle(JoinToks(SubSeq(subject, inv + 1, Len(subject))))
        ELSE None

\* re.search gives the leftmost match of a pattern; the title is what
\* follows the first RFP Invitation: up to the end of the subject.
_extract_rfp_id_from_subject(subject) ==
    LET hash == FirstOf(subject, "hash")
        id == FirstOf(subject, "id")
        inv == FirstOf(subject, "inv")
    IN  IF hash # 0 THEN JInt(subject[hash].n)
        ELSE IF id # 0 THEN JInt(subject[id].n)
        ELSE IF inv # 0 /\ inv < Len(subject)
             THEN FindRfpByTitle(JoinToks(SubSeq(subject, inv + 1, Len(subject))))
        ELSE None

\* Decimal(str(x)) of a float: the same number
ToDecimal(x) == JV("decimal", x.n, "", <<>>, NoObj)
\* 'x or ""', then the TextField's str() of what is not a str
TextOrEmpty(x) == IF Truthy(x) THEN PyStr(x) ELSE JStr("")

\* Proposal.objects.filter(rfp=rfp, vendor=vendor).first(), newest first
FindProposal(store, rfp, vendor) ==
    LET found == {row \in store : row.rfp = rfp /\ row.vendor = vendor}
    IN  IF found = {} THEN NoRow
        ELSE CHOOSE row \in found : \A other \in found : other.id <= row.id

\* The update branch: the row as existing_proposal.save() writes it.
UpdatedProposal(existing, data, body) ==
    [existing EXCEPT
        !.price = IF data.price # None THEN ToDecimal(data.price) ELSE @,
        !.payment_terms = TextOrEmpty(data.payment_terms),
        !.warranty = TextOrEmpty(data.warranty),
        !.raw_email_content = body]

\* The create branch: the row Proposal.objects.create() inserts.
NewProposal(id, rfp, vendor, data, body) ==
    [id |-> id, rfp |-> rfp, vendor |-> vendor,
     price |-> IF Truthy(data.price) THEN ToDecimal(data.price) ELSE None,
     payment_terms |-> TextOrEmpty(data.payment_terms),
     warranty |-> TextOrEmpty(data.warranty),
     raw_email_content |-> body]

\* The store after a committed save() of a row: the row of that id replaced.
SaveRow(store, row) == {old \in store : old.id # row.id} \cup {row}

\* Whether an insert of the pair breaks the unique constraint of the store.
BreaksUnique(store, rfp, vendor) ==
    UniqueTogether /\ \E row \in store : row.rfp = rfp /\ row.vendor = vendor

\* The steps before the extraction: the vendor of the sender (0 for none)
\* and the RFP of the subject (0 when 'not rfp_id', -1 when RFP.objects.get
\* raises DoesNotExist).
ResolvedVendor(msg) == FindVendor(msg.sender)
ResolvedRfp(msg) ==
    LET id == _extract_rfp_id_from_subject(msg.subject)
    IN  IF ~Truthy(id) THEN 0
        ELSE IF \E r \in RFPs : r.id = id.n THEN id.n ELSE -1
Resolves(msg) == ResolvedVendor(msg) # 0 /\ ResolvedRfp(msg) > 0

\* Mutant: a run that returns False after it dropped the rows of the pair.
Failed_DropsRows(store, id, rfp, vendor, path) ==
    [run |-> [NoRun EXCEPT !.result = "False", !.rfp = rfp, !.vendor = vendor,
                           !.path = path],
     store |-> {row \in store : row.rfp # rfp \/ row.vendor # vendor}, id |-> id]

\* What a run that returns False leaves: the store as it was. path is the
\* reason the run reports.
Failed(store, id, rfp, vendor, path) ==
    [run |-> [NoRun EXCEPT !.result = "False", !.rfp = rfp, !.vendor = vendor,
                           !.path = path],
     store |-> store, id |-> id]

\* The block under transaction.atomic() with no other writer: the update of
\* the row found, or the insert of a new one. dbOk is whether the write
\* went through; an exception returns False.
Upsert(store, id, rfp, vendor, data, body, existing, dbOk) ==
    IF ~dbOk \/ (existing = NoRow /\ BreaksUnique(store, rfp, vendor))
    THEN Failed(store, id, rfp, vendor, "Error creating proposal")
    ELSE [run |-> [result |-> "True",
                   path |-> IF existing # NoRow THEN "updated" ELSE "created",
                   rfp |-> rfp, vendor |-> vendor, data |-> data, body |-> body],
          store |-> IF existing # NoRow
                    THEN SaveRow(store, UpdatedProposal(existing, data, body))
                    ELSE store \cup {NewProposal(id, rfp, vendor, data, body)},
          id |-> IF existing # NoRow THEN id ELSE id + 1]

\* The steps of a run once the vendor, the RFP and the extraction are there.
RunWith(store, id, rfp, vendor, got, body, dbOk) ==
    IF vendor = 0 THEN Failed(store, id, 0, 0, "Vendor not found")
    ELSE IF rfp = 0 THEN Failed(store, id, 0, vendor, "Could not extract RFP ID")
    ELSE IF rfp < 0 THEN Failed(store, id, 0, vendor, "RFP not found")
    ELSE IF got.kind = "raise" THEN Failed(store, id, rfp, vendor, "Error creating proposal")
    ELSE IF ~Truthy(got.env.success)
    THEN Failed(store, id, rfp, vendor, "Gemini extraction failed")
    ELSE Upsert(store, id, rfp, vendor, got.env, body,
                FindProposal(store, rfp, vendor), dbOk)

\* The whole of _create_proposal_from_email on a store: the run it makes
\* and the store it leaves.
CreateProposalFromEmail(store, id, msg, apiKey, up, dbOk) ==
    RunWith(store, id, ResolvedRfp(msg), ResolvedVendor(msg),
            extract_proposal_from_email(msg.body, apiKey, up), msg.body, dbOk)

\* The messages of the mailbox and what the model answers to their bodies.
Senders ==
    {"sales@acme.com", "SALES@ACME.COM", "meghana.nagaraj766@gmail.com",
     "stranger@example.com"}
Subjects ==
    {<<Tok("prefix", 0, ""), Tok("hash", 2, "")>>,
     <<Tok("prefix", 0, ""), Tok("inv", 0, ""), Tok("words", 0, "laptop procurement")>>,
     <<Tok("words", 0, "Proposal for "), Tok("id", 7, "")>>,
     <<Tok("words", 0, "Hello")>>}
Bodies == {<<Ch("x")>>, <<Ch("x"), Ch("\n"), Ch("x")>>}
Messages == [sender : Senders, subject : Subjects, body : Bodies]

IngestDocs ==
    {MkObj([price |-> p, payment_terms |-> t, warranty |-> JStr("2 years")]) :
        p \in {None, JInt(0), JInt(68500)}, t \in {None, JStr("Net 30")}}
IngestUpstreams ==
    {UpText(<<Doc(d)>>) : d \in IngestDocs}
        \cup {UpRaise("Exception", "API Error"), UpText(<<Ch("x")>>)}

---------------------------------------------------------------------------
(* Ingestion runs in sequence *)

InitIngestSeq ==
    /\ ExtractIdle
    /\ proposals = {} /\ nextId = 1
    /\ runs = 0 /\ lastRun = NoRun
    /\ ConcIdle /\ CreateIdle /\ SendIdle /\ BatchIdle

\* The store and the record of the run once a message is processed.
RunDone(did) ==
    /\ proposals' = did.store
    /\ nextId' = did.id
    /\ lastRun' = did.run

IngestMessage ==
    /\ runs < MaxRuns
    /\ \E msg \in Messages, apiKey \in {None, JStr("test_key")} :
         \E up \in (IF Resolves(msg) /\ ~KeyMissing(apiKey)
                    THEN IngestUpstreams ELSE {NotCalled}) :
           \E dbOk \in (IF Resolves(msg) THEN BOOLEAN ELSE {TRUE}) :
             RunDone(CreateProposalFromEmail(proposals, nextId, msg, apiKey, up, dbOk))
    /\ runs' = runs + 1
    /\ UNCHANGED <<exVars, sendVars, batchVars, concVars, createVars>>

NextIngestSeq == IngestMessage

SpecIngestSeq == InitIngestSeq /\ [][NextIngestSeq]_vars

---------------------------------------------------------------------------
(* Claims about ingestion in sequence, checked under SpecIngestSeq *)

RowsOf(store, rfp, vendor) == {row \in store : row.rfp = rfp /\ row.vendor = vendor}
\* The stored price is the extracted one: null for null, else the same number.
ReflectsPrice(stored, extracted) ==
    IF extracted = None THEN stored = None
    ELSE stored.t = "decimal" /\ stored.n = extracted.n
\* The stored text is the extracted one, the empty string for null.
ReflectsText(stored, extracted) ==
    IF extracted = None THEN stored = JStr("") ELSE stored = extracted

\* C7: after a second successful run for a pair (the run that finds the row
\* of the first), exactly one row exists for the pair, and its price,
\* payment_terms, warranty and raw_email_content are those the second run
\* extracted, a null price included.
C7_SecondRunReflected ==
    (lastRun.result = "True" /\ lastRun.path = "updated")
        => /\ Cardinality(RowsOf(proposals, lastRun.rfp, lastRun.vendor)) = 1
           /\ \A row \in RowsOf(proposals, lastRun.rfp, lastRun.vendor) :
                /\ ReflectsPrice(row.price, lastRun.data.price)
                /\ ReflectsText(row.payment_terms, lastRun.data.payment_terms)
                /\ ReflectsText(row.warranty, lastRun.data.warranty)
                /\ row.raw_email_content = lastRun.body

\* C11: processing the same message twice (same vendor, RFP, body and
\* extraction result) leaves the row of the pair as processing it once left
\* it: the second run changes neither price, payment_terms, warranty nor
\* raw_email_content, for every extracted price, null and 0 included.
SameMessageAgain ==
    /\ lastRun.result = "True" /\ lastRun'.result = "True"
    /\ lastRun'.rfp = lastRun.rfp /\ lastRun'.vendor = lastRun.vendor
    /\ lastRun'.data = lastRun.data /\ lastRun'.body = lastRun.body
C11_UpsertIdempotent ==
    [][SameMessageAgain
         => RowsOf(proposals', lastRun.rfp, lastRun.vendor)
              = RowsOf(proposals, lastRun.rfp, lastRun.vendor)]_vars

\* The reasons a run reports when it skips a message or fails.
SkipReasons ==
    {"Vendor not found", "Could not extract RFP ID", "RFP not found",
     "Gemini extraction failed", "Error creating proposal"}

\* C18: a run that skips its message or fails (no vendor for the sender, no
\* RFP id in the subject, no RFP of that id, extraction without success, or
\* a write that raises) returns False, and it leaves the Proposal rows and
\* every field of them as they were.
C18_FailureLeavesRows ==
    [][(lastRun'.path \in SkipReasons \/ lastRun'.result = "False")
         => /\ lastRun'.result = "False" /\ lastRun'.path \in SkipReasons
            /\ proposals' = proposals]_vars

\* A write raised for a pair that has a row, and the row is still there.
C18_Witness ==
    /\ lastRun.result = "False" /\ lastRun.path = "Error creating proposal"
    /\ RowsOf(proposals, lastRun.rfp, lastRun.vendor) # {}

---------------------------------------------------------------------------
(* The RFP id of a subject line: the step of _create_proposal_from_email    *)
(* that follows the vendor lookup                                           *)

SubjectToks ==
    {Tok("prefix", 0, ""), Tok("hash", 1, ""), Tok("id", 7, ""), Tok("inv", 0, ""),
     Tok("words", 0, "laptop procurement"), Tok("words", 0, "Hello")}
SubjectInputs == UNION {[1..k -> SubjectToks] : k \in 0..MaxSubjectLen}

InitSubject ==
    /\ ExtractIdle
    /\ proposals = {} /\ nextId = 1
    /\ runs = 0 /\ lastRun = NoRun
    /\ ConcIdle /\ CreateIdle /\ SendIdle
    /\ batch = IdleBatch /\ mailbox = <<>>
    /\ resolve \in {[IdleResolve EXCEPT !.pc = "start", !.subject = s] : s \in SubjectInputs}

\* 'rfp_id = self._extract_rfp_id_from_subject(subject)' and
\* 'if not rfp_id: ... return False'
ExtractRfpId ==
    /\ resolve.pc = "start"
    /\ resolve' = [resolve EXCEPT
          !.pc = "done",
          !.rfp_id = _extract_rfp_id_from_subject(resolve.subject),
          !.skipped = ResolvedRfp([subject |-> resolve.subject]) = 0]
    /\ UNCHANGED <<exVars, sendVars, batch, mailbox, dbVars, seqVars, concVars, createVars>>

NextSubject == ExtractRfpId

SpecSubject == InitSubject /\ [][NextSubject]_vars

\* The places of a kind of token in a subject, and the text that follows the
\* first RFP Invitation: of it.
PlacesOf(subject, k) == {i \in 1..Len(subject) : subject[i].k = k}
TextAfterInvitation(subject) ==
    IF PlacesOf(subject, "inv") = {} THEN ""
    ELSE JoinToks(SubSeq(subject, SetMin(PlacesOf(subject, "inv")) + 1, Len(subject)))
TitledRfps(subject) ==
    {r \in RFPs : PlacesOf(subject, "inv") # {}
                    /\ Lower(r.title) = Lower(TextAfterInvitation(subject))}

\* C19: the RFP id of a subject is that of its first RFP #<n> if it has one;
\* else that of its first RFP ID: <n> if it has one; else the id of the RFP
\* whose title is, case-insensitively, the text after RFP Invitation:; else
\* None, and the message is skipped.
C19_SubjectPriority ==
    resolve.pc = "done" =>
        LET s == resolve.subject
        IN  IF PlacesOf(s, "hash") # {}
            THEN resolve.rfp_id = JInt(s[SetMin(PlacesOf(s, "hash"))].n)
            ELSE IF PlacesOf(s, "id") # {}
            THEN resolve.rfp_id = JInt(s[SetMin(PlacesOf(s, "id"))].n)
            ELSE IF TitledRfps(s) # {}
            THEN \E r \in TitledRfps(s) : resolve.rfp_id = JInt(r.id)
            ELSE resolve.rfp_id = None /\ resolve.skipped

\* A reply whose subject has RFP ID: 7 before RFP #1: the id is 1.
C19_Witness ==
    /\ resolve.pc = "done"
    /\ resolve.subject = <<Tok("prefix", 0, ""), Tok("id", 7, ""), Tok("hash", 1, "")>>
    /\ resolve.rfp_id = JInt(1) /\ ~resolve.skipped

---------------------------------------------------------------------------
(* Concurrent ingestion: several runs of _create_proposal_from_email, each  *)
(* in its own transaction, and the manual script, on one Proposal table.    *)
(* A transaction reads the committed rows; its write is held until the      *)
(* commit at the exit of 'with transaction.atomic()'.                       *)

ConcMessages ==
    {m \in Messages :
        /\ m.sender \in {"sales@acme.com", "meghana.nagaraj766@gmail.com",
                         "stranger@example.com"}
        /\ m.subject = <<Tok("prefix", 0, ""), Tok("hash", 2, "")>>
        /\ m.body = <<Ch("x")>>}
ConcUpstreams ==
    {UpText(<<Doc(MkObj([price |-> p, payment_terms |-> JStr("Net 30"),
                         warranty |-> JStr("2 years")]))>>) : p \in {None, JInt(68500)}}
        \cup {UpRaise("Exception", "API Error")}

\* An insert of the pair waits while another transaction holds an
\* uncommitted insert of the same pair: the unique index decides only once
\* that transaction has ended. w is the waiting worker, 0 for the script.
InsertWaits(w, rfp, vendor) ==
    UniqueTogether
        /\ \E o \in (1..NumWorkers) \ {w} :
              /\ workers[o].pc = "commit"
              /\ workers[o].path = "created"
              /\ workers[o].pending.rfp = rfp
              /\ workers[o].pending.vendor = vendor

\* The steps before the transaction: the vendor, the RFP and the extraction.
\* Any of them failing returns False.
WorkerBegin(w) ==
    /\ workers[w].pc = "idle"
    /\ \E msg \in ConcMessages, up \in ConcUpstreams :
         LET vendor == ResolvedVendor(msg)
             rfp == ResolvedRfp(msg)
             got == extract_proposal_from_email(msg.body, JStr("test_key"), up)
         IN  workers' = [workers EXCEPT ![w] =
                 IF vendor = 0 \/ rfp <= 0 \/ got.kind = "raise" \/ ~Truthy(got.env.success)
                 THEN [@ EXCEPT !.pc = "done", !.result = "False"]
                 ELSE [@ EXCEPT !.pc = "txn", !.rfp = rfp, !.vendor = vendor,
                                !.data = got.env, !.body = msg.body]]
    /\ UNCHANGED <<exVars, sendVars, batchVars, dbVars, seqVars, script, createVars>>

\* Proposal.objects.filter(rfp=rfp, vendor=vendor).first() in the transaction
WorkerRead(w) ==
    /\ workers[w].pc = "txn"
    /\ workers' = [workers EXCEPT ![w] =
          [@ EXCEPT !.pc = "write",
                    !.existing = FindProposal(proposals, @.rfp, @.vendor)]]
    /\ UNCHANGED <<exVars, sendVars, batchVars, dbVars, seqVars, script, createVars>>

\* existing_proposal.save() or Proposal.objects.create(): the write the
\* transaction holds, or the exception that rolls it back and returns False.
WorkerWrite(w) ==
    /\ workers[w].pc = "write"
    /\ LET me == workers[w]
           fails(path) == [me EXCEPT !.pc = "done", !.result = "False", !.path = path]
       IN  \E dbOk \in BOOLEAN :
             IF ~dbOk
             THEN /\ workers' = [workers EXCEPT ![w] = fails("error")]
                  /\ UNCHANGED dbVars
             ELSE IF me.existing # NoRow
             THEN /\ workers' = [workers EXCEPT ![w] =
                        [me EXCEPT !.pc = "commit", !.path = "updated",
                                   !.pending = UpdatedProposal(me.existing, me.data, me.body)]]
                  /\ UNCHANGED dbVars
             ELSE IF BreaksUnique(proposals, me.rfp, me.vendor)
             THEN /\ workers' = [workers EXCEPT ![w] = fails("integrity")]
                  /\ UNCHANGED dbVars
             ELSE /\ ~InsertWaits(w, me.rfp, me.vendor)
                  /\ workers' = [workers EXCEPT ![w] =
                        [me EXCEPT !.pc = "commit", !.path = "created",
                                   !.pending = NewProposal(nextId, me.rfp, me.vendor,
                                                           me.data, me.body)]]
                  /\ nextId' = nextId + 1
                  /\ UNCHANGED proposals
    /\ UNCHANGED <<exVars, sendVars, batchVars, seqVars, script, createVars>>

\* The exit of the atomic block, then 'return True'.
WorkerCommit(w) ==
    /\ workers[w].pc = "commit"
    /\ proposals' = SaveRow(proposals, workers[w].pending)
    /\ workers' = [workers EXCEPT ![w] = [@ EXCEPT !.pc = "done", !.result = "True"]]
    /\ UNCHANGED <<exVars, sendVars, batchVars, nextId, seqVars, script, createVars>>

\* create_proposal_manual.py: the pair it names and the values it writes.
ScriptRfp == 2
ScriptVendor == FindVendor("meghana.nagaraj766@gmail.com")
ScriptPrice == ToDecimal(JFloat(150000))
ScriptBody ==
    <<JStr("Price $ 15000\nPayment terms: pay in installments\nWarranty: 2 years")>>

\* get_or_create, first half: the get() of the pair. More than one row is
\* MultipleObjectsReturned, which ends the script.
ScriptGet ==
    /\ script.pc = "idle"
    /\ LET rows == {row \in proposals : row.rfp = ScriptRfp /\ row.vendor = ScriptVendor}
       IN  script' =
             IF rows = {} THEN [script EXCEPT !.pc = "create"]
             ELSE IF Cardinality(rows) > 1 THEN [script EXCEPT !.pc = "crashed"]
             ELSE [script EXCEPT !.pc = "update", !.row = CHOOSE row \in rows : TRUE]
    /\ UNCHANGED <<exVars, sendVars, batchVars, dbVars, seqVars, workers, createVars>>

\* get_or_create, second half: the create() with the defaults, committed at
\* once; on IntegrityError the get() again.
ScriptCreate ==
    /\ script.pc = "create"
    /\ IF BreaksUnique(proposals, ScriptRfp, ScriptVendor)
       THEN /\ script' = [script EXCEPT !.pc = "update",
                             !.row = FindProposal(proposals, ScriptRfp, ScriptVendor)]
            /\ UNCHANGED dbVars
       ELSE /\ ~InsertWaits(0, ScriptRfp, ScriptVendor)
            /\ proposals' = proposals \cup
                  {[id |-> nextId, rfp |-> ScriptRfp, vendor |-> ScriptVendor,
                    price |-> ScriptPrice,
                    payment_terms |-> JStr("pay in installments"),
                    warranty |-> JStr("2 years"),
                    raw_email_content |-> ScriptBody]}
            /\ nextId' = nextId + 1
            /\ script' = [script EXCEPT !.pc = "done", !.created = TRUE]
    /\ UNCHANGED <<exVars, sendVars, batchVars, seqVars, workers, createVars>>

\* 'if not created': the three assignments and proposal.save()
ScriptUpdate ==
    /\ script.pc = "update"
    /\ proposals' = SaveRow(proposals,
          [script.row EXCEPT !.price = ScriptPrice,
                             !.payment_terms = JStr("pay in installments"),
                             !.warranty = JStr("2 years")])
    /\ script' = [script EXCEPT !.pc = "done"]
    /\ UNCHANGED <<exVars, sendVars, batchVars, nextId, seqVars, workers, createVars>>

InitIngest ==
    /\ ExtractIdle
    /\ proposals = {} /\ nextId = 1
    /\ runs = 0 /\ lastRun = NoRun
    /\ ConcIdle /\ CreateIdle /\ SendIdle /\ BatchIdle

NextIngest ==
    \/ \E w \in 1..NumWorkers :
          WorkerBegin(w) \/ WorkerRead(w) \/ WorkerWrite(w) \/ WorkerCommit(w)
    \/ ScriptGet
    \/ ScriptCreate
    \/ ScriptUpdate

SpecIngest == InitIngest /\ [][NextIngest]_vars

---------------------------------------------------------------------------
(* Claims about concurrent ingestion, checked under SpecIngest *)

\* C9: in every reachable state, whatever the interleaving of the ingestion
\* runs and the manual script, the Proposal table holds at most one row for
\* each (RFP, Vendor) pair.
C9_AtMostOneRowPerPair ==
    \A r \in RFPs, v \in Vendors : Cardinality(RowsOf(proposals, r.id, v.id)) <= 1

\* Two runs for one pair both found no row; one committed its insert and
\* the other's insert was refused.
C9_Witness ==
    \E a \in 1..NumWorkers, b \in 1..NumWorkers :
        /\ a # b
        /\ workers[a].rfp = workers[b].rfp /\ workers[a].vendor = workers[b].vendor
        /\ workers[a].pc = "done" /\ workers[a].result = "True"
        /\ workers[a].path = "created" /\ workers[a].existing = NoRow
        /\ workers[b].pc = "done" /\ workers[b].result = "False"
        /\ workers[b].path = "integrity" /\ workers[b].existing = NoRow
        /\ Cardinality(RowsOf(proposals, workers[a].rfp, workers[a].vendor)) = 1

\* Worker w found no row of its pair and is at, or past, its insert.
SawNoRow(w) ==
    /\ workers[w].rfp # 0 /\ workers[w].existing = NoRow
    /\ \/ workers[w].pc = "write"
       \/ workers[w].path \in {"created", "integrity"}

\* C24: no interleaving of two ingestion runs on one pair lets both find
\* that no Proposal exists and both go for an insert, and no run fails
\* because another run inserted the row of its pair first.
C24_NoReadThenWriteRace ==
    /\ \A a \in 1..NumWorkers, b \in 1..NumWorkers :
         (a # b /\ workers[a].rfp = workers[b].rfp
                /\ workers[a].vendor = workers[b].vendor)
            => ~(SawNoRow(a) /\ SawNoRow(b))
    /\ \A w \in 1..NumWorkers :
         ~(workers[w].result = "False" /\ workers[w].path = "integrity")

---------------------------------------------------------------------------
(* The creation of an RFP from text: rfp/views.py create_rfp_from_text.    *)
(* Requests are served concurrently; the rows a request writes inside      *)
(* 'with transaction.atomic()' are held by its transaction until the exit  *)
(* of the block.                                                           *)

\* Mutant: the exit of the block keeps the writes whatever happened.
AtomicExit_KeepsWrites(committed, held, raised) == committed \cup held

\* The exit of 'with transaction.atomic()': an exception leaving the block
\* rolls the held writes back, a normal exit commits them.
AtomicExit(committed, held, raised) ==
    IF raised THEN committed ELSE committed \cup held

_parse_budget(budget_value) ==
    CASE budget_value.t = "null" -> None
      [] budget_value.t = "float" -> ToDecimal(budget_value)
      [] budget_value.t = "int" -> ToDecimal(JFloat(10 * budget_value.n))
      [] budget_value.t = "str" /\ budget_value.s \in DOMAIN FloatLiterals ->
            ToDecimal(JFloat(FloatLiterals[budget_value.s]))
      [] OTHER -> None

\* Mutant: the integer as it is, without 'max(1, qty)'.
_parse_quantity_NoFloor(quantity_value) ==
    LET qty == PyInt(quantity_value)
    IN  IF ~qty.ok THEN JInt(1) ELSE qty.val

_parse_quantity(quantity_value) ==
    LET qty == PyInt(quantity_value)
    IN  IF ~qty.ok THEN JInt(1)
        ELSE IF qty.val.t = "hugeint" THEN qty.val
        ELSE JInt(IF qty.val.n < 1 THEN 1 ELSE qty.val.n)

\* RFP.title is a CharField without null=True: a None title is refused.
RfpRejected(row) == row.title.t = "null"
\* RFPItem.quantity is a PositiveIntegerField: an integer beyond the range
\* of the column is refused.
ItemRejected(row) == row.quantity.t = "hugeint"

\* The 'text' of the request body, and what the remote model answers.
RequestTexts ==
    {None, JInt(5), JText(<<>>), JText(<<Ch(" ")>>), JText(<<Ch("x")>>)}
Bolts == Item(JStr("Bolts"), HugeInt, JStr("M8"))
Cables == Item(JStr("Cables"), JInt(0), JStr("2 m"))
Returns == Item(JStr("Returns"), JInt(-3), JStr(""))
\* The items of a response: laptops, with or without a last entry whose
\* quantity no column holds; or one entry whose quantity is 0 or negative.
CreateItems ==
    {l \in SeqsUpTo({Laptops, Bolts}, MaxItems) :
        \A i \in 1..(Len(l) - 1) : l[i] = Laptops}
        \cup {<<Cables>>, <<Returns>>}
CreateDocs ==
    {MkRfp(JStr("Office Laptop Purchase"), JInt(75000), Absent, JList(l)) :
        l \in CreateItems}
        \cup {MkRfp(None, JInt(75000), Absent, JList(<<Laptops>>))}
CreateUpstreams ==
    {UpText(<<Doc(d)>>) : d \in CreateDocs} \cup {UpRaise("Exception", "API Error")}

\* The request once answered: its locals are gone; the RFP row it wrote
\* and the entries it went through stay on record.
Responded(req, status) ==
    [IdleRequest EXCEPT !.pc = "done", !.status = status, !.rfp = req.rfp, !.k = req.k,
                        !.body = req.body]

\* What leaves a write of the block: nothing, a ValueError, or an error of
\* the database.
WriteOutcomes == {"", "ValueError", "DatabaseError"}

\* Mutant: every exception answered as an internal error.
StatusOfException_Always500(exc) == 500

\* 'except ValueError' gives 400, 'except Exception' 500.
StatusOfException(exc) == IF exc = "ValueError" THEN 400 ELSE 500

\* The validation of the text and the extraction: 400, 422, or on to the
\* transaction.
ReqReceive(r) ==
    /\ requests[r].pc = "idle"
    /\ \E text \in RequestTexts :
         IF ~Truthy(text) \/ ~IsStr(text) \/ Strip(text.l) = <<>>
         THEN requests' = [requests EXCEPT ![r] = [Responded(@, 400) EXCEPT !.body = text]]
         ELSE \E apiKey \in {None, JStr("test_key")} :
                \E up \in (IF KeyMissing(apiKey) THEN {NotCalled} ELSE CreateUpstreams) :
                  LET got == extract_rfp_from_text(text.l, apiKey, up)
                  IN  requests' = [requests EXCEPT ![r] =
                        IF got.kind = "raise"
                        THEN [Responded(@, StatusOfException(got.exc)) EXCEPT
                                 !.body = text, !.exc = got.exc]
                        ELSE IF ~Truthy(got.env.success)
                        THEN [Responded(@, 422) EXCEPT
                                 !.body = text, !.got = got.env,
                                 !.details = got.env.error]
                        ELSE [@ EXCEPT !.pc = "rfp", !.body = text, !.text = text.l,
                                       !.got = got.env]]
    /\ UNCHANGED <<exVars, sendVars, batchVars, dbVars, seqVars, concVars, rfpRows, itemRows, nextPk>>

\* RFP.objects.create(...) inside the block, or the exception that leaves it.
ReqCreateRfp(r) ==
    /\ requests[r].pc = "rfp"
    /\ LET me == requests[r]
           row == [id |-> nextPk,
                   title |-> IF "title" \in DOMAIN me.got THEN me.got.title
                             ELSE JStr("Untitled RFP"),
                   natural_language_input |-> me.text,
                   budget |-> _parse_budget(IF "budget" \in DOMAIN me.got
                                            THEN me.got.budget ELSE None),
                   status |-> "draft"]
       IN  \E wrote \in WriteOutcomes :
             IF wrote # "" \/ RfpRejected(row)
             THEN /\ requests' = [requests EXCEPT ![r] =
                        LET exc == IF wrote # "" THEN wrote ELSE "IntegrityError"
                        IN  [Responded(me, StatusOfException(exc)) EXCEPT
                                !.raisedAt = "rfp", !.exc = exc]]
                  /\ rfpRows' = AtomicExit(rfpRows, {}, TRUE)
                  /\ UNCHANGED nextPk
             ELSE /\ requests' = [requests EXCEPT ![r] =
                        [me EXCEPT !.pc = "items", !.rfp = row]]
                  /\ nextPk' = nextPk + 1
                  /\ UNCHANGED rfpRows
    /\ UNCHANGED <<exVars, sendVars, batchVars, dbVars, seqVars, concVars, itemRows>>

\* One turn of 'for item_data in items_data': RFPItem.objects.create(...),
\* or the exception that leaves the block and gives 500. An RFPItem row is
\* told from the others of its RFP by its place in the loop.
ReqCreateItem(r) ==
    /\ requests[r].pc = "items"
    /\ requests[r].k < Len(requests[r].got.items.l)
    /\ LET me == requests[r]
           item_data == me.got.items.l[me.k + 1]
           row == [pos |-> me.k + 1, rfp |-> me.rfp.id,
                   name |-> DictGet(item_data, "name", JStr("Unnamed Item")),
                   quantity |-> _parse_quantity(DictGet(item_data, "quantity", JInt(1))),
                   specifications |-> DictGet(item_data, "specifications", JStr(""))]
       IN  \E wrote \in WriteOutcomes :
             IF wrote # "" \/ ItemRejected(row)
             THEN /\ requests' = [requests EXCEPT ![r] =
                        LET exc == IF wrote # "" THEN wrote ELSE "DataError"
                        IN  [Responded(me, StatusOfException(exc)) EXCEPT
                                !.raisedAt = "item", !.exc = exc]]
                  /\ rfpRows' = AtomicExit(rfpRows, {me.rfp}, TRUE)
                  /\ itemRows' = AtomicExit(itemRows, me.items, TRUE)
                  /\ UNCHANGED nextPk
             ELSE /\ requests' = [requests EXCEPT ![r] =
                        [me EXCEPT !.items = @ \cup {row}, !.k = @ + 1]]
                  /\ UNCHANGED <<rfpRows, itemRows, nextPk>>
    /\ UNCHANGED <<exVars, sendVars, batchVars, dbVars, seqVars, concVars>>

\* The end of the loop: the exit of the block, then the 201 response.
ReqCommit(r) ==
    /\ requests[r].pc = "items"
    /\ requests[r].k = Len(requests[r].got.items.l)
    /\ rfpRows' = AtomicExit(rfpRows, {requests[r].rfp}, FALSE)
    /\ itemRows' = AtomicExit(itemRows, requests[r].items, FALSE)
    /\ requests' = [requests EXCEPT ![r] = Responded(@, 201)]
    /\ UNCHANGED <<exVars, sendVars, batchVars, dbVars, seqVars, concVars, nextPk>>

InitCreateRfp ==
    /\ ExtractIdle
    /\ proposals = {} /\ nextId = 1
    /\ runs = 0 /\ lastRun = NoRun
    /\ ConcIdle /\ CreateIdle /\ SendIdle /\ BatchIdle

NextCreateRfp ==
    \E r \in 1..NumRequests :
        ReqReceive(r) \/ ReqCreateRfp(r) \/ ReqCreateItem(r) \/ ReqCommit(r)

SpecCreateRfp == InitCreateRfp /\ [][NextCreateRfp]_vars

---------------------------------------------------------------------------
(* Claims about the creation from text, checked under SpecCreateRfp *)

\* C8: once the persisting of an RFPItem has failed in a request, after its
\* RFP row was written, the store shows neither that RFP row nor any
\* RFPItem row of it.
C8_AllOrNothing ==
    \A r \in 1..NumRequests :
        requests[r].raisedAt = "item"
            => /\ ~\E row \in rfpRows : row.id = requests[r].rfp.id
               /\ ~\E row \in itemRows : row.rfp = requests[r].rfp.id

\* A request failed on its second item, its RFP row and its first item
\* written, while another request's RFP and items are in the store.
C8_Witness ==
    \E r \in 1..NumRequests, o \in 1..NumRequests :
        /\ requests[r].raisedAt = "item" /\ requests[r].status = 500
        /\ requests[r].rfp.id # 0 /\ requests[r].k >= 1
        /\ requests[o].status = 201
        /\ \E row \in rfpRows : row.id = requests[o].rfp.id
        /\ \E row \in itemRows : row.rfp = requests[o].rfp.id

\* The step answers request r.
Answers(r) == requests[r].pc # "done" /\ requests'[r].pc = "done"
\* The text of a request body that is missing, empty, whitespace-only or not
\* a string.
BadText(body) == body = None \/ ~IsStr(body) \/ AllWhite(body.l)

\* C22: a request whose text is missing, empty, whitespace-only or not a
\* string, or that a ValueError ends, is answered 400; one whose extraction
\* gave success=false is answered 422 with the error of the envelope as
\* details; one that any other exception ends is answered 500; and the step
\* that gives any of these answers adds no RFP row and no RFPItem row.
C22_ErrorClasses ==
    [][\A r \in 1..NumRequests :
         Answers(r) =>
           LET q == requests'[r]
           IN  /\ BadText(q.body) => q.status = 400
               /\ q.exc = "ValueError" => q.status = 400
               /\ q.exc \notin {"", "ValueError"} => q.status = 500
               /\ ("success" \in DOMAIN q.got /\ q.got.success = JBool(FALSE))
                    => q.status = 422 /\ q.details = q.got.error /\ q.details # None
               /\ q.status \in {400, 422, 500, 201}
               /\ q.status = 201
                    => ~BadText(q.body) /\ q.exc = "" /\ "success" \notin DOMAIN q.got
               /\ q.status # 201 => rfpRows' = rfpRows /\ itemRows' = itemRows]_vars

\* One request was answered 422 with the details of its envelope, and
\* another 400 for a ValueError raised after its RFP row was written, and
\* the store holds no row.
C22_Witness ==
    \E r \in 1..NumRequests, o \in 1..NumRequests :
        /\ requests[r].status = 422 /\ requests[r].details # None
        /\ requests[o].status = 400 /\ requests[o].exc = "ValueError"
        /\ requests[o].raisedAt = "item"
        /\ rfpRows = {} /\ itemRows = {}

\* The quantity the view is to store for a quantity of the envelope.
AtLeastOne(quantity) == IF quantity.n < 1 THEN JInt(1) ELSE quantity

\* C25: every RFPItem row of the store has an integer quantity of at least
\* 1, and every row a request has written holds the quantity of its entry
\* of the envelope, or 1 when that quantity is 0 or negative.
C25_QuantityPositive ==
    /\ \A row \in itemRows : row.quantity.t = "int" /\ row.quantity.n >= 1
    /\ \A r \in 1..NumRequests :
         \A row \in requests[r].items :
            /\ row.quantity.t = "int" /\ row.quantity.n >= 1
            /\ row.quantity = AtLeastOne(requests[r].got.items.l[row.pos].o["quantity"])

\* The store holds the item of an entry whose quantity was 0 or negative,
\* with quantity 1.
C25_Witness ==
    \E row \in itemRows :
        /\ row.name \in {JStr("Cables"), JStr("Returns")}
        /\ row.quantity = JInt(1)

\* The step answers request r, whose extraction gave success=true, and no
\* write of it was failed by the database.
AnswersSuccess(r) ==
    /\ Answers(r)
    /\ "success" \in DOMAIN requests[r].got /\ requests[r].got.success = JBool(TRUE)
    /\ requests'[r].exc \notin (WriteOutcomes \ {""})

\* C28: a request whose extraction gave success=true is answered 201, and
\* its answer adds exactly one RFP row, of status draft, with the request
\* text and the title of the envelope, and one RFPItem row for each item of
\* the envelope, whatever the title of the envelope.
C28_SuccessIsPersisted ==
    [][\A r \in 1..NumRequests :
         AnswersSuccess(r) =>
           /\ requests'[r].status = 201
           /\ \E row \in rfpRows' \ rfpRows :
                /\ rfpRows' = rfpRows \cup {row}
                /\ row.status = "draft"
                /\ row.natural_language_input = requests[r].text
                /\ row.title = requests[r].got.title
                /\ Cardinality({i \in itemRows' \ itemRows : i.rfp = row.id})
                     = Len(requests[r].got.items.l)
                /\ \A i \in itemRows' \ itemRows : i.rfp = row.id]_vars

---------------------------------------------------------------------------
(* The sending of invitations: rfp/views.py RFPViewSet.send_rfp_emails *)

Statuses == {"draft", "sent", "evaluating"}
RfpIds == {r.id : r \in RFPs}

\* The vendor_ids of the request body; Absent is the key left out.
VendorIdInputs ==
    {Absent, None, JStr("1,2"), JInt(1)}
        \cup {JList(l) : l \in SeqsUpTo({JInt(1), JInt(2), JInt(9)}, MaxVendorIds)}

\* Vendor.objects.filter(id__in=vendor_ids), in the order of Vendor.Meta
\* (by name; the seeded names sort as their ids): the ids of the vendors.
RECURSIVE InOrder(_)
InOrder(ids) ==
    IF ids = {} THEN <<>>
    ELSE <<SetMin(ids)>> \o InOrder(ids \ {SetMin(ids)})
MatchedVendors(vendor_ids) ==
    InOrder({v.id : v \in {x \in Vendors :
                \E i \in 1..Len(vendor_ids.l) : vendor_ids.l[i] = JInt(x.id)}})

\* Mutant: the status set whatever the count.
StatusAfterSend_Always(status, sent_count) == "sent"

\* 'if sent_count > 0: rfp.status = RFP.Status.SENT; rfp.save()'
StatusAfterSend(status, sent_count) == IF sent_count > 0 THEN "sent" ELSE status

\* Mutant: the status set to sent before vendor_ids is validated.
SendReceive_SavesFirst ==
    /\ send.pc = "idle"
    /\ \E pk \in RfpIds \cup {7}, given \in VendorIdInputs :
         LET vendor_ids == IF given = Absent THEN JList(<<>>) ELSE given
             answered(status) ==
                 [send EXCEPT !.pc = "done", !.rfp = pk, !.vendor_ids = vendor_ids,
                              !.status = status]
         IN  /\ send' =
                   IF pk \notin RfpIds THEN answered(404)
                   ELSE IF ~Truthy(vendor_ids) \/ vendor_ids.t # "list" THEN answered(400)
                   ELSE IF MatchedVendors(vendor_ids) = <<>> THEN answered(404)
                   ELSE [send EXCEPT !.pc = "sending", !.rfp = pk, !.vendor_ids = vendor_ids,
                                     !.todo = MatchedVendors(vendor_ids),
                                     !.loaded = rfpStatus[pk]]
             /\ rfpStatus' = IF pk \in RfpIds THEN [rfpStatus EXCEPT ![pk] = "sent"]
                             ELSE rfpStatus
    /\ UNCHANGED <<exVars, dbVars, seqVars, concVars, createVars, outbox, batchVars>>

\* get_object(), the validation of vendor_ids and the vendor lookup: 404,
\* 400, 404, or on to the loop.
SendReceive ==
    /\ send.pc = "idle"
    /\ \E pk \in RfpIds \cup {7}, given \in VendorIdInputs :
         LET vendor_ids == IF given = Absent THEN JList(<<>>) ELSE given
             answered(status) ==
                 [send EXCEPT !.pc = "done", !.rfp = pk, !.vendor_ids = vendor_ids,
                              !.status = status]
         IN  send' =
               IF pk \notin RfpIds THEN answered(404)
               ELSE IF ~Truthy(vendor_ids) \/ vendor_ids.t # "list" THEN answered(400)
               ELSE IF MatchedVendors(vendor_ids) = <<>> THEN answered(404)
               ELSE [send EXCEPT !.pc = "sending", !.rfp = pk, !.vendor_ids = vendor_ids,
                                 !.todo = MatchedVendors(vendor_ids),
                                 !.loaded = rfpStatus[pk]]
    /\ UNCHANGED <<exVars, dbVars, seqVars, concVars, createVars, rfpStatus, outbox,
                   batchVars>>

\* Mutant: the first send_mail that raises ends the loop.
SendOne_StopsAtFailure ==
    /\ send.pc = "sending"
    /\ send.todo # <<>>
    /\ \E ok \in BOOLEAN :
         LET vendor == Head(send.todo)
         IN  /\ send' = [send EXCEPT
                   !.todo = IF ok THEN Tail(@) ELSE <<>>,
                   !.attempts = Append(@, [vendor |-> vendor, ok |-> ok]),
                   !.sent_count = IF ok THEN @ + 1 ELSE @,
                   !.failed_vendors = IF ok THEN @ ELSE Append(@, vendor)]
             /\ outbox' = IF ok THEN outbox \cup {[rfp |-> send.rfp, vendor |-> vendor]}
                          ELSE outbox
    /\ UNCHANGED <<exVars, dbVars, seqVars, concVars, createVars, rfpStatus, batchVars>>

\* One turn of 'for vendor in vendors': send_mail goes through, or raises
\* and the vendor is appended to failed_vendors.
SendOne ==
    /\ send.pc = "sending"
    /\ send.todo # <<>>
    /\ \E ok \in BOOLEAN :
         LET vendor == Head(send.todo)
         IN  /\ send' = [send EXCEPT
                   !.todo = Tail(@),
                   !.attempts = Append(@, [vendor |-> vendor, ok |-> ok]),
                   !.sent_count = IF ok THEN @ + 1 ELSE @,
                   !.failed_vendors = IF ok THEN @ ELSE Append(@, vendor)]
             /\ outbox' = IF ok THEN outbox \cup {[rfp |-> send.rfp, vendor |-> vendor]}
                          ELSE outbox
    /\ UNCHANGED <<exVars, dbVars, seqVars, concVars, createVars, rfpStatus, batchVars>>

\* After the loop: the status update and the 200 response.
SendFinish ==
    /\ send.pc = "sending"
    /\ send.todo = <<>>
    /\ rfpStatus' = [rfpStatus EXCEPT ![send.rfp] = StatusAfterSend(@, send.sent_count)]
    /\ send' = [send EXCEPT !.pc = "done", !.status = 200]
    /\ UNCHANGED <<exVars, dbVars, seqVars, concVars, createVars, outbox, batchVars>>

InitSend ==
    /\ ExtractIdle
    /\ proposals = {} /\ nextId = 1
    /\ runs = 0 /\ lastRun = NoRun
    /\ ConcIdle /\ CreateIdle /\ BatchIdle
    /\ send = IdleSend
    /\ rfpStatus \in [RfpIds -> Statuses]
    /\ outbox = {}

NextSend == SendReceive \/ SendOne \/ SendFinish

SpecSend == InitSend /\ [][NextSend]_vars

---------------------------------------------------------------------------
(* Claims about the sending of invitations, checked under SpecSend *)

SendAnswered == send.pc = "done" /\ send.status = 200
SomeSendSucceeded == \E i \in 1..Len(send.attempts) : send.attempts[i].ok

\* C12: once send_rfp_emails has gone through the matched vendors, the RFP's
\* status is "sent" if at least one send succeeded, and is the status the
\* RFP had before if every send failed.
C12_StatusFollowsSends ==
    SendAnswered
        => IF SomeSendSucceeded THEN rfpStatus[send.rfp] = "sent"
           ELSE rfpStatus[send.rfp] = send.loaded

\* Of two sends the first failed and the second went through, and the RFP
\* went from draft to sent.
C12_Witness ==
    /\ SendAnswered
    /\ Len(send.attempts) = 2
    /\ ~send.attempts[1].ok /\ send.attempts[2].ok
    /\ send.loaded = "draft" /\ rfpStatus[send.rfp] = "sent"

\* The vendors of the attempts, in the order of the attempts, and those of
\* the attempts that failed.
RECURSIVE FailedOf(_)
FailedOf(attempts) ==
    IF attempts = <<>> THEN <<>>
    ELSE (IF Head(attempts).ok THEN <<>> ELSE <<Head(attempts).vendor>>)
            \o FailedOf(Tail(attempts))

\* C21: a request that went through the loop has attempted every matched
\* vendor exactly once, whatever the sends before it did; every failed send
\* is reported with the id of its vendor, and emails_sent plus the number of
\* failed vendors is the number of matched vendors.
C21_BestEffortPerVendor ==
    SendAnswered
        => /\ [i \in 1..Len(send.attempts) |-> send.attempts[i].vendor]
                = MatchedVendors(send.vendor_ids)
           /\ send.failed_vendors = FailedOf(send.attempts)
           /\ send.sent_count + Len(send.failed_vendors)
                = Len(MatchedVendors(send.vendor_ids))
           /\ \A i \in 1..Len(send.attempts) :
                send.attempts[i].ok
                    <=> [rfp |-> send.rfp, vendor |-> send.attempts[i].vendor] \in outbox

\* The send to the first vendor failed, the send to the second was still
\* made and went through, and the first vendor is the one reported.
C21_Witness ==
    /\ SendAnswered
    /\ send.attempts = <<[vendor |-> 1, ok |-> FALSE], [vendor |-> 2, ok |-> TRUE]>>
    /\ send.failed_vendors = <<1>> /\ send.sent_count = 1

\* The request was answered 400 or 404.
SendRejected == send.pc = "done" /\ send.status \in {400, 404}

\* C30: the step that rejects a request (vendor_ids missing, empty or not a
\* list: 400; no vendor of these ids: 404) sends no email and changes
\* neither the status of an RFP nor any other stored row.
C30_RejectedSendChangesNothing ==
    [][SendRejected'
         => /\ outbox' = outbox /\ rfpStatus' = rfpStatus
            /\ send'.attempts = <<>> /\ send'.sent_count = 0
            /\ UNCHANGED <<proposals, rfpRows, itemRows>>]_vars

\* A request whose vendor_ids is a string was answered 400, and one whose
\* ids match no vendor 404, with nothing sent.
C30_Witness ==
    /\ SendRejected /\ send.rfp \in RfpIds /\ outbox = {}
    /\ \/ send.status = 400 /\ send.vendor_ids = JStr("1,2")
       \/ send.status = 404 /\ send.vendor_ids = JList(<<JInt(9)>>)

---------------------------------------------------------------------------
(* The status of an RFP over the handlers that write it: send_rfp_emails    *)
(* and the update of RFPViewSet (PUT and PATCH), whose serializer has       *)
(* status among its writable fields. The seeded RFPs are drafts, as         *)
(* create_rfp_from_text creates them.                                       *)

\* The status of the body of an update; the ChoiceField of the serializer
\* refuses what is not a choice of RFP.Status.
StatusInputs == Statuses \cup {"archived"}

\* RFPViewSet.update / partial_update with a status in the body.
RfpUpdate ==
    /\ \E pk \in RfpIds, status \in StatusInputs :
         rfpStatus' = IF status \in Statuses THEN [rfpStatus EXCEPT ![pk] = status]
                      ELSE rfpStatus
    /\ UNCHANGED <<exVars, dbVars, seqVars, concVars, createVars, send, outbox, batchVars>>

InitStatus ==
    /\ ExtractIdle
    /\ proposals = {} /\ nextId = 1
    /\ runs = 0 /\ lastRun = NoRun
    /\ ConcIdle /\ CreateIdle /\ SendIdle /\ BatchIdle

NextStatus == SendReceive \/ SendOne \/ SendFinish \/ RfpUpdate

SpecStatus == InitStatus /\ [][NextStatus]_vars

\* The place of a status in draft, sent, evaluating.
StatusRank(status) ==
    CASE status = "draft" -> 1 [] status = "sent" -> 2 [] status = "evaluating" -> 3
      [] OTHER -> 0

\* C23: the status of every RFP is always draft, sent or evaluating, and no
\* step moves it backward (from sent to draft, or from evaluating to sent
\* or draft).
C23_StatusForwardOnly ==
    [][\A id \in RfpIds :
         /\ rfpStatus'[id] \in Statuses
         /\ StatusRank(rfpStatus'[id]) >= StatusRank(rfpStatus[id])]_vars

---------------------------------------------------------------------------
(* The fetch_emails command: Command.handle on an IMAP inbox. The inbox is  *)
(* selected read-write (mail.select without readonly), and a message is     *)
(* fetched as RFC822, not as BODY.PEEK[]: the server sets the Seen flag of  *)
(* a message it delivers this way (RFC 3501, 6.4.5).                        *)

BatchMessages ==
    {m \in Messages :
        /\ m.sender \in {"sales@acme.com", "stranger@example.com"}
        /\ m.subject = <<Tok("prefix", 0, ""), Tok("hash", 2, "")>>
        /\ m.body = <<Ch("x")>>}
        \cup {[sender |-> "sales@acme.com",
               subject |-> <<Tok("prefix", 0, ""), Tok("hash", 2, "")>>, body |-> <<>>]}
BatchUpstreams ==
    {UpText(<<Doc(MkObj([price |-> JInt(68500), payment_terms |-> JStr("Net 30"),
                         warranty |-> JStr("2 years")]))>>),
     UpRaise("Exception", "API Error")}
Mailboxes ==
    UNION {[1..k -> [seen : BOOLEAN, msg : BatchMessages]] : k \in 0..MaxMailbox}

\* mail.search(None, UNSEEN): the ids of the messages without the Seen flag,
\* in ascending order.
RECURSIVE UnseenFrom(_, _)
UnseenFrom(box, i) ==
    IF i > Len(box) THEN <<>>
    ELSE (IF box[i].seen THEN <<>> ELSE <<i>>) \o UnseenFrom(box, i + 1)
\* email_ids[:limit]
FirstN(ids, limit) == SubSeq(ids, 1, IF Len(ids) < limit THEN Len(ids) ELSE limit)

\* mail.fetch(email_id, (RFC822)): the message, with its Seen flag set.
ImapFetch(box, email_id) == [box EXCEPT ![email_id].seen = TRUE]
\* mail.store(email_id, +FLAGS, Seen)
ImapStore(box, email_id) == [box EXCEPT ![email_id].seen = TRUE]

InitBatch ==
    /\ ExtractIdle
    /\ proposals = {} /\ nextId = 1
    /\ runs = 0 /\ lastRun = NoRun
    /\ ConcIdle /\ CreateIdle /\ SendIdle
    /\ batch = IdleBatch /\ resolve = IdleResolve
    /\ mailbox \in Mailboxes

\* From the options to the list of ids: the search, 'if not email_ids' and
\* the limit.
BatchStart ==
    /\ batch.pc = "idle"
    /\ \E mark_seen \in BOOLEAN, create_proposals \in BOOLEAN, searchOk \in BOOLEAN,
          limit \in 1..MaxMailbox :
         LET email_ids == FirstN(UnseenFrom(mailbox, 1), limit)
         IN  batch' = [batch EXCEPT
                 !.pc = IF searchOk /\ email_ids # <<>> THEN "loop" ELSE "done",
                 !.mark_seen = mark_seen,
                 !.create_proposals = create_proposals,
                 !.email_ids = IF searchOk THEN email_ids ELSE <<>>,
                 !.ids = IF searchOk THEN email_ids ELSE <<>>]
    /\ UNCHANGED <<exVars, sendVars, mailbox, resolve, dbVars, seqVars, concVars, createVars>>

\* What _create_proposal_from_email gives when it is not called.
NotProcessed(store, id) == [run |-> NoRun, store |-> store, id |-> id]

\* Mutant: a message whose proposal failed ends the batch.
TurnDone_StopsAtFailure(email_id, did, storeOk) ==
    /\ proposals' = did.store
    /\ nextId' = did.id
    /\ mailbox' = IF batch.mark_seen /\ storeOk
                  THEN ImapStore(ImapFetch(mailbox, email_id), email_id)
                  ELSE ImapFetch(mailbox, email_id)
    /\ batch' = [batch EXCEPT
          !.pc = IF storeOk /\ did.run.result # "False" THEN "loop" ELSE "aborted",
          !.ids = IF storeOk THEN Tail(@) ELSE @,
          !.fetched = @ \cup {email_id},
          !.reached = @ \cup {email_id},
          !.processed = IF did.run.result # "none" THEN @ \cup {email_id} ELSE @,
          !.proposals_created = IF did.run.result = "True" THEN @ + 1 ELSE @,
          !.proposals_failed = IF did.run.result = "False" THEN @ + 1 ELSE @,
          !.error = IF storeOk THEN @ ELSE "IMAP4.error"]

\* The rest of a turn of the loop once the message is fetched: the proposal
\* of the message (did), the counters, and the store of the flag; storeOk
\* is whether mail.store returned, an exception of it ends the batch.
TurnDone(email_id, did, storeOk) ==
    /\ proposals' = did.store
    /\ nextId' = did.id
    /\ mailbox' = IF batch.mark_seen /\ storeOk
                  THEN ImapStore(ImapFetch(mailbox, email_id), email_id)
                  ELSE ImapFetch(mailbox, email_id)
    /\ batch' = [batch EXCEPT
          !.pc = IF storeOk THEN "loop" ELSE "aborted",
          !.ids = IF storeOk THEN Tail(@) ELSE @,
          !.fetched = @ \cup {email_id},
          !.reached = @ \cup {email_id},
          !.processed = IF did.run.result # "none" THEN @ \cup {email_id} ELSE @,
          !.proposals_created = IF did.run.result = "True" THEN @ + 1 ELSE @,
          !.proposals_failed = IF did.run.result = "False" THEN @ + 1 ELSE @,
          !.error = IF storeOk THEN @ ELSE "IMAP4.error"]

\* One turn of 'for idx, email_id in enumerate(email_ids, 1)'.
BatchTurn ==
    /\ batch.pc = "loop" /\ batch.ids # <<>>
    /\ \E fetch \in {"OK", "NO", "raise"} :
         LET email_id == Head(batch.ids)
             msg == mailbox[email_id].msg
             creates == batch.create_proposals /\ ~InputIsEmpty(msg.body)
         IN  IF fetch = "OK"
             THEN \E up \in (IF creates THEN BatchUpstreams ELSE {NotCalled}),
                     storeOk \in (IF batch.mark_seen THEN BOOLEAN ELSE {TRUE}) :
                    TurnDone(email_id,
                             IF creates
                             THEN CreateProposalFromEmail(proposals, nextId, msg,
                                                          JStr("test_key"), up, TRUE)
                             ELSE NotProcessed(proposals, nextId),
                             storeOk)
             ELSE /\ batch' = [batch EXCEPT
                        !.pc = IF fetch = "NO" THEN "loop" ELSE "aborted",
                        !.ids = IF fetch = "NO" THEN Tail(@) ELSE @,
                        !.reached = @ \cup {email_id},
                        !.error = IF fetch = "NO" THEN @ ELSE "IMAP4.error"]
                  /\ UNCHANGED <<mailbox, dbVars>>
    /\ UNCHANGED <<exVars, sendVars, resolve, seqVars, concVars, createVars>>

\* The summary and mail.logout() after the last turn.
BatchFinish ==
    /\ batch.pc = "loop" /\ batch.ids = <<>>
    /\ batch' = [batch EXCEPT !.pc = "done"]
    /\ UNCHANGED <<exVars, sendVars, mailbox, resolve, dbVars, seqVars, concVars, createVars>>

NextBatch == BatchStart \/ BatchTurn \/ BatchFinish

SpecBatch == InitBatch /\ [][NextBatch]_vars

---------------------------------------------------------------------------
(* Claims about the fetch_emails command, checked under SpecBatch *)

\* C20: with --mark-seen, every message the run fetched is marked as read,
\* whatever became of its proposal; without --mark-seen, the run leaves the
\* Seen flag of every message as it was.
C20_MarkSeenOnlyWhenAsked ==
    [][/\ batch'.mark_seen
            => \A id \in batch'.fetched : mailbox'[id].seen
       /\ ~batch'.mark_seen
            => \A id \in 1..Len(mailbox) : mailbox'[id].seen = mailbox[id].seen]_vars

\* The ids of a list, and the messages of the inbox that have a body.
IdsOf(ids) == {ids[i] : i \in 1..Len(ids)}
HasBody(id) == ~InputIsEmpty(mailbox[id].msg.body)

\* C29: in a run with --create-proposals only an error of the mail server
\* ends the batch early, never the skip or the failure of a proposal: a run
\* that ends without such an error has gone through every message of the
\* batch; the messages handed to _create_proposal_from_email are the
\* fetched ones that have a body, each counted once as created or failed;
\* a message without a body is never handed over.
C29_FailureDoesNotStopBatch ==
    batch.create_proposals
        => /\ batch.pc = "aborted" => batch.error = "IMAP4.error"
           /\ batch.pc \in {"loop", "done"}
                => batch.reached \cup IdsOf(batch.ids) = IdsOf(batch.email_ids)
           /\ batch.pc = "done" => batch.reached = IdsOf(batch.email_ids)
           /\ batch.processed = {id \in batch.fetched : HasBody(id)}
           /\ batch.proposals_created + batch.proposals_failed
                = Cardinality(batch.processed)

\* The proposal of the first message failed (no vendor of that sender), the
\* second message was still processed and its proposal created.
C29_Witness ==
    /\ batch.pc = "done" /\ batch.create_proposals
    /\ batch.email_ids = <<1, 2>> /\ batch.processed = {1, 2}
    /\ mailbox[1].msg.sender = "stranger@example.com"
    /\ batch.proposals_failed = 1 /\ batch.proposals_created = 1
    /\ proposals # {}

====
